---- MODULE Spec2Model ----
(***************************************************************************)
(* A model of luci/gae.                                                    *)
(*  - the batching decorator (service/datastore/batcher.go): the fan-out   *)
(*    of GetMulti, PutMulti and DeleteMulti into groups (batchParallel)    *)
(*    and the iterative, cursor-chained execution of queries (Run);        *)
(*  - the deferred callbacks of transactions (filter/txndefer);            *)
(*  - DroppedArgTracker (service/datastore);                               *)
(*  - the FlakyErrors callback of the featureBreaker filter;               *)
(*  - the transactions of the in-memory engine;                            *)
(*  - GoogleServiceProvider.PublicCertificates, LogSeverityTracker and     *)
(*    capturingResponseWriter (impl/cloud);                                *)
(*  - the two implementations of DroppedArgTracker side by side.           *)
(* Each component has its own variables, initial predicate, next-state     *)
(* relation and specification; the variables of the others stay idle.      *)
(***************************************************************************)
EXTENDS Integers, Sequences, FiniteSets, TLC

(***************************************************************************)
(* Bounds of the model.                                                    *)
(***************************************************************************)
\* largest number of elements of one multi-key operation
MaxKeys == 3
\* largest positive Constraints.MaxPutSize
MaxGroup == 2

(***************************************************************************)
(* Errors.  Every error value is a record of one shape: kind, the place    *)
(* it was raised at (a group's offset) and, for the MultiError that        *)
(* parallel.FanOutIn returns, the collected errors.                        *)
(***************************************************************************)
Nil == [kind |-> "nil", at |-> 0, errs |-> <<>>]
Stop == [kind |-> "Stop", at |-> 0, errs |-> <<>>]
\* an error the inner operation of the group at offset o returns (a failed RPC)
RpcErr(o) == [kind |-> "rpc", at |-> o, errs |-> <<>>]
\* an error the caller's callback returns while it handles the group at offset o
CbErr(o) == [kind |-> "cb", at |-> o, errs |-> <<>>]
\* errors.Reason("batching is disabled, and size (%d) exceeds maximum (%d)")
ErrBatchingDisabled == [kind |-> "batchingDisabled", at |-> 0, errs |-> <<>>]
\* the errors.MultiError parallel.FanOutIn builds from the errors of its tasks
MultiError(es) == [kind |-> "MultiError", at |-> 0, errs |-> es]
\* the per-element error of GetMulti for a missing entity
ErrNoSuchEntity == [kind |-> "ErrNoSuchEntity", at |-> 0, errs |-> <<>>]

\* filterStop: Stop becomes nil, every other value is kept
filterStop(err) == IF err = Stop THEN Nil ELSE err

Min(a, b) == IF a < b THEN a ELSE b

VARIABLES
    bf,          \* the batchFilter: batchingSpecified, batchingEnabled,
                 \* maxPutSize (constraints.MaxPutSize), queryBatchSize,
                 \* hasCallback (queryBatchCallback != nil)
    op,          \* "GetMulti", "PutMulti" or "DeleteMulti"
    keys,        \* the keys argument of the call
    vals,        \* the vals argument of PutMulti
    mpc,         \* position of the call: "start", "direct", "fanout", "done"
    i,           \* loop variable of the generator of batchParallel
    groups,      \* the invocations of the inner operation, in dispatch order
    received,    \* per original index (1-based: index j is entry j+1), what the caller's callback got
    errs,        \* the errors parallel.FanOutIn has collected so far
    ret,         \* what the call returned
    store,       \* number of records the query matches in the backend, in result order
    fq,          \* the FinalizedQuery given to Run: start, hasLimit, limit, project
    rpc,         \* position of Run: "start", "loop", "inner", "afterInner", "batchCb", "done"
    direct,      \* TRUE when Run passed the query to the inner Run unbatched
    cursor,      \* the loop's cursor variable
    limit,       \* the loop's remaining limit
    rcount,      \* count of the current iteration
    inner,       \* the running inner Run: its query, next position, error
    runCalls,    \* the queries given to the inner Run, in order
    delivered,   \* the records the caller's callback got, in order
    events,      \* "R" per inner Run call, "D" per record the caller's callback
                 \* got and "C" per batch callback, in order
    rret,        \* what Run returned
    page,        \* the caller's paging: round, the cursor it retained, the
                 \* records it had got by then, what round 1 started from
    \* ---- filter/txndefer ----
    installed,   \* TRUE when FilterRDS has put filteredDS into the context
    tpc,         \* position of RunInTransaction: "start", "inner", "body",
                 \* "commit", "conflict", "returned", "exec", "done", "panic",
                 \* "blocked"
    attempt,     \* how many times the inner RunInTransaction has run the body
    cbs,         \* txnState.cbs
    noTxnCtx,    \* the noTxnCtx variable of RunInTransaction
    terr,        \* what the inner RunInTransaction returned
    execK,       \* how many callbacks execCBs has called
    executed,    \* the callbacks that started, with the context each got
    defers,      \* every call of Defer: callback, context, attempt, outcome
    \* ---- DroppedArgTracker ----
    dat,         \* the tracker: a slice of int
    marks,       \* the indices MarkForRemoval was called with, in call order
    dkeys,       \* the keys array handed to Drop*
    dvals,       \* the vals (meta) array handed to DropKeysAndVals (AndMeta)
    dpc,         \* "mark" until a Drop* method is called, then "dropped"
    dres,        \* outcome of the Drop* call: method, panicked, keys, vals
    lookups,     \* reducedIndex -> what OriginalIndex returned (-1: not asked)
    \* ---- FlakyErrors ----
    params,      \* FlakyErrorsParams after defaulting: the two probabilities
    procs,       \* per goroutine: pc, feature, the values it drew, result
    lock,        \* diceRoller.l: the goroutine holding it, 0 when free
    taken,       \* how many values of the random stream Int63 has handed out
    \* ---- Run, continued ----
    cbRet,       \* what the caller's Run callback returned last
    \* ---- transactions of the in-memory engine ----
    estore,      \* the versioned store: version, entities, and per entity
                 \* group the version that modified it last
    etxns,       \* per transaction: pc, snapshot, pending writes, the entity
                 \* groups touched, runs of the body, error
    \* ---- GoogleServiceProvider.PublicCertificates ----
    gsp,         \* which implementation, the cache entry, the calls so far
    \* ---- LogSeverityTracker ----
    lst,         \* the tracker: observed, highestSeverity, lock
    lprocs,      \* per goroutine: pc, method, argument, value read
    lhist,       \* severities whose Observe has completed; the values
                 \* HighestSeverity returned, in order
    \* ---- capturingResponseWriter ----
    crw,         \* which implementation, Bytes, HasStatus, Status, the
                 \* calls so far and what the inner writer got
    \* ---- the two implementations of DroppedArgTracker ----
    both         \* N, the two trackers, and what each returned

multiVars == <<op, keys, vals, mpc, i, groups, received, errs, ret>>
runVars == <<store, fq, rpc, direct, cursor, limit, rcount, inner, runCalls,
             delivered, events, rret, page, cbRet>>
txnVars == <<installed, tpc, attempt, cbs, noTxnCtx, terr, execK, executed,
             defers>>
datVars == <<dat, marks, dkeys, dvals, dpc, dres, lookups>>
flakyVars == <<params, procs, lock, taken>>
engineVars == <<estore, etxns>>
certVars == <<gsp>>
lstVars == <<lst, lprocs, lhist>>
crwVars == <<crw>>
bothVars == <<both>>
\* the components added after them
moreVars == <<engineVars, certVars, lstVars, crwVars, bothVars>>
\* the state of the batching decorator
batcherVars == <<bf, multiVars, runVars>>
\* the first four components
oldVars == <<batcherVars, txnVars, datVars, flakyVars>>
vars == <<bf, op, keys, vals, mpc, i, groups, received, errs, ret,
          store, fq, rpc, direct, cursor, limit, rcount, inner, runCalls,
          delivered, events, rret, page,
          installed, tpc, attempt, cbs, noTxnCtx, terr, execK, executed, defers,
          dat, marks, dkeys, dvals, dpc, dres, lookups,
          params, procs, lock, taken,
          cbRet, estore, etxns, gsp, lst, lprocs, lhist, crw, both>>

Ops == {"GetMulti", "PutMulti", "DeleteMulti"}
KeyOf(j) == 100 + j
ValOf(j) == 200 + j

\* count argument of batchParallel: len(keys), and len(vals) for PutMulti
count == IF op = "PutMulti" THEN Len(vals) ELSE Len(keys)
\* batch argument of batchParallel
batch == bf.maxPutSize

\* Go's s[offset:offset+n]
Slice(s, offset, n) == SubSeq(s, offset + 1, offset + n)

\* "We batch by default unless the user specifies otherwise."
Batching(b) == (b.batchingEnabled \/ ~b.batchingSpecified) /\ b.maxPutSize > 0

\* a group: one invocation cb(offset, size) of the closure of GetMulti/PutMulti/DeleteMulti,
\* which calls the inner operation on keys[offset:offset+size]
NewGroup(offset, size) ==
    [offset |-> offset, size |-> size,
     gkeys |-> Slice(keys, offset, size),
     gvals |-> IF op = "PutMulti" THEN Slice(vals, offset, size) ELSE <<>>,
     idx |-> 0, st |-> "running", res |-> Nil]

\* A Go int (64 bits) as its part above bit 31 and the rest: the value is
\* high * 2^31 + low with low below 2^31, so that a size beyond int32 can
\* be told from one within.
Int64(high, low) == [high |-> high, low |-> low]
\* n <= 0
LeqZero(n) == n.high = 0 /\ n.low <= 0
\* n > math.MaxInt32
ExceedsInt32(n) == n.high > 0

NoCursor == [set |-> FALSE, pos |-> 0]
NoQuery == [start |-> NoCursor, hasLimit |-> FALSE, limit |-> 0, project |-> FALSE,
            offset |-> 0]
NoInner == [q |-> NoQuery, pos |-> 0, left |-> 0, err |-> Nil]
NoPage == [round |-> 0, saved |-> NoCursor, got |-> 0, from |-> 0]
\* a nil context.Context
NoCtx == [attempt |-> -1, txn |-> FALSE, state |-> FALSE]
\* no Drop* method has been called
NoDrop == [method |-> "none", panicked |-> FALSE, keys |-> <<>>, vals |-> <<>>]
\* OriginalIndex has not been called
NoLookup == [asked |-> -1, got |-> -1]
\* no FlakyErrors callback has been built
NoParams == [deadline |-> 0, conflict |-> 0]
\* the idle values of the later components
NoStore == [version |-> 0, ents |-> <<>>, modified |-> <<>>]
NoGsp == [impl |-> "none", cache |-> "empty", calls |-> <<>>]
NoLst == [observed |-> FALSE, highestSeverity |-> 0, lock |-> 0]
NoHist == [completed |-> {}, returned |-> <<>>, calls |-> 0]
NoCrw == [impl |-> "none", Bytes |-> 0, HasStatus |-> FALSE, Status |-> 0,
          inner |-> <<>>, calls |-> <<>>]
NoBoth == [pc |-> "idle", N |-> 0, old |-> <<>>, new |-> <<>>,
           keysOld |-> <<>>, keysNew |-> <<>>, asked |-> -1,
           gotOld |-> -1, gotNew |-> -1]

InitMulti ==
    /\ cbRet = Nil /\ estore = NoStore /\ etxns = <<>> /\ gsp = NoGsp
    /\ lst = NoLst /\ lprocs = <<>> /\ lhist = NoHist /\ crw = NoCrw
    /\ both = NoBoth
    /\ bf \in [batchingSpecified : BOOLEAN, batchingEnabled : BOOLEAN,
               maxPutSize : -1..MaxGroup, queryBatchSize : {Int64(0, 0)},
               hasCallback : {FALSE}]
    /\ store = 0 /\ fq = NoQuery /\ rpc = "idle" /\ direct = FALSE
    /\ cursor = NoCursor /\ limit = 0 /\ rcount = 0 /\ inner = NoInner
    /\ runCalls = <<>> /\ delivered = <<>> /\ events = <<>> /\ rret = Nil
    /\ page = NoPage
    /\ op \in Ops
    /\ \E n \in 0..MaxKeys :
         /\ keys = [j \in 1..n |-> KeyOf(j - 1)]
         /\ vals = IF op = "PutMulti" THEN [j \in 1..n |-> ValOf(j - 1)] ELSE <<>>
         /\ received = [j \in 1..n |-> <<>>]
    /\ mpc = "start"
    /\ i = 0
    /\ groups = <<>>
    /\ errs = <<>>
    /\ ret = Nil
    /\ installed = FALSE /\ tpc = "idle" /\ attempt = 0 /\ cbs = <<>>
    /\ noTxnCtx = NoCtx /\ terr = Nil /\ execK = 0 /\ executed = <<>>
    /\ defers = <<>>
    /\ dat = <<>> /\ marks = <<>> /\ dkeys = <<>> /\ dvals = <<>> /\ dpc = "idle"
    /\ dres = NoDrop /\ lookups = NoLookup
    /\ params = NoParams /\ procs = <<>> /\ lock = 0 /\ taken = 0

TooLargeInclusive(n, b) == b > 0 /\ n >= b
\* batch > 0 && count > batch
TooLarge(n, b) == b > 0 /\ n > b

\* batchParallel up to the fan-out: the early returns and the single-batch calls
BatchParallelStart ==
    /\ mpc = "start"
    /\ IF batch <= 0
         THEN /\ groups' = <<NewGroup(0, count)>>
              /\ mpc' = "direct"
              /\ ret' = ret
       ELSE IF ~Batching(bf)
         THEN IF TooLarge(count, batch)
                THEN /\ ret' = ErrBatchingDisabled
                     /\ mpc' = "done"
                     /\ groups' = groups
                ELSE /\ groups' = <<NewGroup(0, count)>>
                     /\ mpc' = "direct"
                     /\ ret' = ret
       ELSE /\ mpc' = "fanout"
            /\ groups' = groups
            /\ ret' = ret
    /\ UNCHANGED <<bf, op, keys, vals, i, received, errs>>
    /\ UNCHANGED <<runVars, txnVars, datVars, flakyVars, moreVars>>

\* size := count - i; if size > batch { size = batch }
SizeOf(n, at, b) == Min(n - at, b)

\* one iteration of the generator loop: workC <- func() error {...}; i += size.
\* FanOutIn starts the task it receives in a goroutine of its own.
Dispatch ==
    /\ mpc = "fanout"
    /\ i < count
    /\ LET size == SizeOf(count, i, batch) IN
         /\ groups' = Append(groups, NewGroup(i, size))
         /\ i' = i + size
    /\ UNCHANGED <<bf, op, keys, vals, mpc, received, errs, ret>>
    /\ UNCHANGED <<runVars, txnVars, datVars, flakyVars, moreVars>>

\* what the inner operation reports for element idx of the slice it was given
Payload(g, idx) ==
    [key |-> g.gkeys[idx + 1],
     val |-> IF op = "PutMulti" THEN g.gvals[idx + 1] ELSE 0]

ForwardIndexUnshifted(offset, idx) == idx
\* cb(offset+idx, ...)
ForwardIndex(offset, idx) == offset + idx

ForwardErrDropped(err) == Nil
\* cb(offset+idx, val, err): the element's error is passed on as it is
ForwardErr(err) == err

\* the inner operation reports element idx of a group; the closure forwards
\* it to the caller's callback at offset+idx ("reported" keeps what the inner
\* operation said about the element)
InnerDeliver(g) ==
    /\ mpc \in {"direct", "fanout"}
    /\ groups[g].st = "running"
    /\ groups[g].idx < groups[g].size
    /\ \E e \in (IF op = "GetMulti" THEN {Nil, ErrNoSuchEntity} ELSE {Nil}) :
         LET at == ForwardIndex(groups[g].offset, groups[g].idx) + 1
             r == [payload |-> Payload(groups[g], groups[g].idx),
                   err |-> ForwardErr(e), reported |-> e, group |-> g]
         IN  received' = [received EXCEPT ![at] = Append(@, r)]
    /\ groups' = [groups EXCEPT ![g].st = "inCb"]
    /\ UNCHANGED <<bf, op, keys, vals, mpc, i, errs, ret>>
    /\ UNCHANGED <<runVars, txnVars, datVars, flakyVars, moreVars>>

TaskResultUnfiltered(r) == r
\* what the task sent to FanOutIn returns when the group's call returned r:
\* return filterStop(cb(offset, size))
TaskResult(r) == filterStop(r)

\* a group's inner call has returned r; FanOutIn collects the task's result
\* when it is an error
Collect(g, r) ==
    IF mpc = "fanout" /\ TaskResult(r) # Nil
      THEN errs' = Append(errs, TaskResult(r))
      ELSE errs' = errs

\* the caller's callback returns: nil lets the inner operation go on, an
\* error or Stop makes the inner operation return it
CallbackReturn(g) ==
    /\ mpc \in {"direct", "fanout"}
    /\ groups[g].st = "inCb"
    /\ \E r \in {Nil, Stop, CbErr(groups[g].offset)} :
         IF r = Nil
           THEN /\ groups' = [groups EXCEPT ![g].st = "running", ![g].idx = @ + 1]
                /\ errs' = errs
           ELSE /\ groups' = [groups EXCEPT ![g].st = "done", ![g].res = r]
                /\ Collect(g, r)
    /\ UNCHANGED <<bf, op, keys, vals, mpc, i, received, ret>>
    /\ UNCHANGED <<runVars, txnVars, datVars, flakyVars, moreVars>>

\* the inner operation returns nil after its last element
InnerReturn(g) ==
    /\ mpc \in {"direct", "fanout"}
    /\ groups[g].st = "running"
    /\ groups[g].idx = groups[g].size
    /\ groups' = [groups EXCEPT ![g].st = "done"]
    /\ UNCHANGED <<bf, op, keys, vals, mpc, i, received, errs, ret>>
    /\ UNCHANGED <<runVars, txnVars, datVars, flakyVars, moreVars>>

\* the inner operation fails as a whole
InnerFail(g) ==
    /\ mpc \in {"direct", "fanout"}
    /\ groups[g].st = "running"
    /\ groups' = [groups EXCEPT ![g].st = "done", ![g].res = RpcErr(groups[g].offset)]
    /\ Collect(g, RpcErr(groups[g].offset))
    /\ UNCHANGED <<bf, op, keys, vals, mpc, i, received, ret>>
    /\ UNCHANGED <<runVars, txnVars, datVars, flakyVars, moreVars>>

AllDone == \A g \in 1..Len(groups) : groups[g].st = "done"

\* FanOutIn returns once the generator has returned and every task has finished
JoinReady == i >= count /\ AllDone

FanInFirstOnly(es) == IF es = <<>> THEN Nil ELSE es[1]
\* errors.MultiErrorFromErrors: nil without errors, else all of them
FanIn(es) == IF es = <<>> THEN Nil ELSE MultiError(es)

\* return parallel.FanOutIn(...)
Join ==
    /\ mpc = "fanout"
    /\ JoinReady
    /\ mpc' = "done"
    /\ ret' = FanIn(errs)
    /\ UNCHANGED <<bf, op, keys, vals, i, groups, received, errs>>
    /\ UNCHANGED <<runVars, txnVars, datVars, flakyVars, moreVars>>

\* return cb(0, count)
DirectReturn ==
    /\ mpc = "direct"
    /\ groups[1].st = "done"
    /\ mpc' = "done"
    /\ ret' = groups[1].res
    /\ UNCHANGED <<bf, op, keys, vals, i, groups, received, errs>>
    /\ UNCHANGED <<runVars, txnVars, datVars, flakyVars, moreVars>>

NextMulti ==
    \/ BatchParallelStart
    \/ Dispatch
    \/ \E g \in 1..Len(groups) : InnerDeliver(g)
    \/ \E g \in 1..Len(groups) : CallbackReturn(g)
    \/ \E g \in 1..Len(groups) : InnerReturn(g)
    \/ \E g \in 1..Len(groups) : InnerFail(g)
    \/ Join
    \/ DirectReturn

SpecMulti == InitMulti /\ [][NextMulti]_vars

(***************************************************************************)
(* Properties of the multi-key operations.                                 *)
(***************************************************************************)
Ceil(n, g) == (n + g - 1) \div g
\* the call is fanned out: a positive group size and batching on (enabled,
\* or not specified)
FanOutCase == bf.maxPutSize > 0 /\ (bf.batchingEnabled \/ ~bf.batchingSpecified)
ExplicitlyDisabled == bf.batchingSpecified /\ ~bf.batchingEnabled
Failed(g) == groups[g].res \notin {Nil, Stop}
\* the one group of an unbatched call is the whole batch
WholeBatch ==
    /\ Len(groups) = 1
    /\ groups[1].offset = 0
    /\ groups[1].size = count
    /\ groups[1].gkeys = keys
    /\ groups[1].gvals = vals

\* C1: with N elements, group size G = MaxPutSize > 0 and batching on, the
\* inner operation is invoked exactly ceil(N/G) times, the g-th time on the
\* range [(g-1)*G, min(g*G, N)) of the arguments; whatever the caller's
\* callback gets at original index j is the inner result for element j, at
\* most once, and exactly once for every j when no group failed or stopped.
C1_GroupsCoverAndResultsKeepIndex ==
    FanOutCase =>
      /\ \A j \in 1..count :
           /\ Len(received[j]) <= 1
           /\ \A k \in 1..Len(received[j]) :
                /\ received[j][k].payload.key = keys[j]
                /\ op = "PutMulti" => received[j][k].payload.val = vals[j]
      /\ mpc = "done" =>
           /\ Len(groups) = Ceil(count, bf.maxPutSize)
           /\ \A g \in 1..Len(groups) :
                /\ groups[g].offset = (g - 1) * bf.maxPutSize
                /\ groups[g].size = Min(g * bf.maxPutSize, count) - groups[g].offset
                /\ groups[g].size > 0
                /\ groups[g].gkeys = SubSeq(keys, groups[g].offset + 1,
                                            groups[g].offset + groups[g].size)
           /\ (\A g \in 1..Len(groups) : groups[g].res = Nil) =>
                \A j \in 1..count : Len(received[j]) = 1

\* three elements in groups of two: two invocations, every index served once
C1_Witness ==
    /\ mpc = "done" /\ FanOutCase /\ ret = Nil
    /\ count = 3 /\ bf.maxPutSize = 2 /\ Len(groups) = 2
    /\ \A j \in 1..count : Len(received[j]) = 1

\* C7 (as stated): once a group has returned an error or Stop, no further
\* group is dispatched.
C7_NoDispatchAfterFailure ==
    [][(\E g \in 1..Len(groups) :
           groups[g].st = "done" /\ groups[g].res # Nil)
         => Len(groups') <= Len(groups)]_vars

C9_SingleBatchOrError ==
    mpc = "done" =>
      /\ bf.maxPutSize <= 0 => WholeBatch
      /\ (ExplicitlyDisabled /\ bf.maxPutSize > 0 /\ count > bf.maxPutSize) =>
           /\ ret = ErrBatchingDisabled
           /\ groups = <<>>
           /\ \A j \in 1..count : received[j] = <<>>
      /\ (ExplicitlyDisabled /\ count <= bf.maxPutSize) =>
           /\ WholeBatch
           /\ ret # ErrBatchingDisabled

\* batching disabled and exactly MaxPutSize elements: one whole invocation
C9_Witness ==
    /\ mpc = "done" /\ ExplicitlyDisabled
    /\ count = 2 /\ bf.maxPutSize = 2
    /\ WholeBatch /\ ret = Nil
    /\ \A j \in 1..count : Len(received[j]) = 1

\* C11: an error the inner operation reports for one element (not-found
\* from GetMulti) reaches the caller's callback unchanged at that element's
\* original index; it is no result of a group, so a call in which no
\* callback and no inner call returned an error returns nil and has served
\* every index once, whatever the per-element errors were.
C11_ElementErrorsAreForwarded ==
    /\ \A j \in 1..count : \A k \in 1..Len(received[j]) :
         /\ received[j][k].err = received[j][k].reported
         /\ received[j][k].payload.key = keys[j]
    /\ (mpc = "done" /\ ret # ErrBatchingDisabled
          /\ \A g \in 1..Len(groups) : groups[g].res = Nil) =>
         /\ ret = Nil
         /\ \A j \in 1..count : Len(received[j]) = 1

\* GetMulti of three keys in groups of two; the first key is missing: the
\* callback got not-found at index 0, results at 1 and 2, and nil came back
C11_Witness ==
    /\ mpc = "done" /\ FanOutCase /\ op = "GetMulti" /\ ret = Nil
    /\ count = 3 /\ bf.maxPutSize = 2 /\ Len(groups) = 2
    /\ Len(received[1]) = 1 /\ received[1][1].err = ErrNoSuchEntity
    /\ Len(received[2]) = 1 /\ received[2][1].err = Nil
    /\ Len(received[3]) = 1 /\ received[3][1].err = Nil

(***************************************************************************)
(* Run: a query is executed as a chain of sub-queries of at most           *)
(* queryBatchSize records, each started from the cursor taken at the last  *)
(* record of the one before.                                               *)
(***************************************************************************)
\* largest number of records a query matches
MaxRecords == 4
\* largest query batch size that fits in int32 in the model
MaxBatch == 3

\* errors.New("batch size must fit in int32")
ErrBatchSize == [kind |-> "batchSize", at |-> 0, errs |-> <<>>]
\* fmt.Errorf("failed to get cursor: %v", err)
ErrGetCursor == [kind |-> "getCursor", at |-> 0, errs |-> <<>>]
\* the error a failing batch callback returns
ErrBatchCb == [kind |-> "batchCb", at |-> 0, errs |-> <<>>]

\* the value of the record at position p of the result order
RecVal(p) == 500 + p
\* a cursor: the position of the next record
CursorAt(p) == [set |-> TRUE, pos |-> p]
StartPos(q) == IF q.start.set THEN q.start.pos ELSE 0

\* queryBatchSize of applyBatchFilter: the context's size, or the backend's
applyBatchFilter(ctxSize, constraintsSize) ==
    IF LeqZero(ctxSize) THEN constraintsSize ELSE ctxSize

\* the sizes of the model: -1..MaxBatch and one that does not fit in int32
BatchSizes == {Int64(0, n) : n \in -1..MaxBatch} \cup {Int64(1, 0)}

\* bs := int32(bf.queryBatchSize)
bs == bf.queryBatchSize.low

InitRun ==
    /\ cbRet = Nil /\ estore = NoStore /\ etxns = <<>> /\ gsp = NoGsp
    /\ lst = NoLst /\ lprocs = <<>> /\ lhist = NoHist /\ crw = NoCrw
    /\ both = NoBoth
    /\ \E ctxSize \in {Int64(0, 0), Int64(0, 2)}, constraintsSize \in BatchSizes :
         bf \in [batchingSpecified : BOOLEAN, batchingEnabled : BOOLEAN,
                 maxPutSize : {0},
                 queryBatchSize : {applyBatchFilter(ctxSize, constraintsSize)},
                 hasCallback : BOOLEAN]
    /\ op = "none" /\ keys = <<>> /\ vals = <<>> /\ mpc = "idle" /\ i = 0
    /\ groups = <<>> /\ received = <<>> /\ errs = <<>> /\ ret = Nil
    /\ store \in 0..MaxRecords
    /\ \E s \in 0..store, hl \in BOOLEAN, pr \in BOOLEAN :
         \E l \in (IF hl THEN 0..(MaxRecords + 1) ELSE {0}) :
           /\ fq = [start |-> IF s = 0 THEN NoCursor ELSE CursorAt(s),
                    hasLimit |-> hl, limit |-> l, project |-> pr,
                    offset |-> 0]
           /\ page = [round |-> 1, saved |-> NoCursor, got |-> 0, from |-> s]
    /\ rpc = "start"
    /\ direct = FALSE
    /\ cursor = NoCursor
    /\ limit = 0
    /\ rcount = 0
    /\ inner = NoInner
    /\ runCalls = <<>>
    /\ delivered = <<>>
    /\ events = <<>>
    /\ rret = Nil
    /\ installed = FALSE /\ tpc = "idle" /\ attempt = 0 /\ cbs = <<>>
    /\ noTxnCtx = NoCtx /\ terr = Nil /\ execK = 0 /\ executed = <<>>
    /\ defers = <<>>
    /\ dat = <<>> /\ marks = <<>> /\ dkeys = <<>> /\ dvals = <<>> /\ dpc = "idle"
    /\ dres = NoDrop /\ lookups = NoLookup
    /\ params = NoParams /\ procs = <<>> /\ lock = 0 /\ taken = 0

RunBatchingIgnoresProjection(b, q) == b.batchingEnabled \/ ~b.batchingSpecified
\* batching := bf.batchingEnabled || !bf.batchingSpecified, and false for a
\* projection query when batching is not explicitly specified
RunBatching(b, q) ==
    IF q.project /\ ~b.batchingSpecified
      THEN FALSE
      ELSE b.batchingEnabled \/ ~b.batchingSpecified

\* the backend's Run starts: from the query's start cursor it skips offset
\* records and will deliver the following ones, at most limit of them
InnerRun(q) ==
    [q |-> q, pos |-> StartPos(q) + q.offset,
     left |-> IF q.hasLimit THEN q.limit ELSE -1, err |-> Nil]
InnerHasNext == inner.pos < store /\ inner.left # 0

\* Run up to the loop: unbatched, rejected, or batched
RunStart ==
    /\ rpc = "start"
    /\ IF ~RunBatching(bf, fq) \/ LeqZero(bf.queryBatchSize)
         THEN /\ direct' = TRUE
              /\ inner' = InnerRun(fq)
              /\ runCalls' = Append(runCalls, fq)
              /\ events' = Append(events, "R")
              /\ rpc' = "inner"
              /\ UNCHANGED <<limit, rret>>
       ELSE IF ExceedsInt32(bf.queryBatchSize)
         THEN /\ rret' = ErrBatchSize
              /\ rpc' = "done"
              /\ UNCHANGED <<direct, inner, runCalls, events, limit>>
       ELSE /\ limit' = (IF fq.hasLimit THEN fq.limit ELSE 0)
            /\ rpc' = "loop"
            /\ UNCHANGED <<direct, inner, runCalls, events, rret>>
    /\ UNCHANGED <<bf, store, fq, cursor, rcount, delivered, page>>
    /\ UNCHANGED cbRet
    /\ UNCHANGED <<multiVars, txnVars, datVars, flakyVars, moreVars>>

IterLimitIgnoresRemaining(size, hasLimit, lim) == size
\* iterLimit := bs; if hasLimit && limit < iterLimit { iterLimit = limit }
IterLimit(size, hasLimit, lim) == IF hasLimit /\ lim < size THEN lim ELSE size

IterQueryDropsStart(q, cur, iterLimit) ==
    [start |-> cur, hasLimit |-> TRUE, limit |-> iterLimit, project |-> q.project,
     offset |-> q.offset]
\* fq.Original(), then Start(cursor) when there is a cursor, then
\* Limit(iterLimit): every other part of the query, its offset included, is
\* that of the original
IterQuery(q, cur, iterLimit) ==
    [start |-> IF cur.set THEN cur ELSE q.start,
     hasLimit |-> TRUE, limit |-> iterLimit, project |-> q.project,
     offset |-> q.offset]

\* the head of the loop: build the sub-query and give it to the inner Run
LoopIssue ==
    /\ rpc = "loop"
    /\ LET iterQuery == IterQuery(fq, cursor,
                                  IterLimit(bs, fq.hasLimit, limit))
       IN  /\ inner' = InnerRun(iterQuery)
           /\ runCalls' = Append(runCalls, iterQuery)
    /\ cursor' = NoCursor
    /\ rcount' = 0
    /\ events' = Append(events, "R")
    /\ rpc' = "inner"
    /\ UNCHANGED <<bf, store, fq, direct, limit, delivered, rret, page>>
    /\ UNCHANGED cbRet
    /\ UNCHANGED <<multiVars, txnVars, datVars, flakyVars, moreVars>>

CbReturnsEarlyOnErrorOnly(err) == err \notin {Nil, Stop}
\* if err := cb(key, val, getCursor); err != nil { return err }, before the
\* record is counted and before the cursor is taken
CbReturnsEarly(err) == err # Nil

TakesCursorLate(n, size) == n > size
\* count >= bs
TakesCursor(n, size) == n >= size

\* the inner Run delivers its next record.  Batched, the intermediate
\* callback hands it to the caller's callback, counts it and takes the
\* cursor at the last record of the batch; unbatched, the caller's callback
\* is the inner Run's callback.
InnerRecord ==
    /\ rpc = "inner"
    /\ InnerHasNext
    /\ IF ~direct /\ cursor.set
         THEN \* panic(fmt.Errorf("iterating past batch size"))
              /\ rpc' = "panic"
              /\ UNCHANGED <<delivered, events, page, inner, rcount, cursor, cbRet>>
         ELSE /\ delivered' = Append(delivered, RecVal(inner.pos))
              /\ events' = Append(events, "D")
              /\ \E keep \in (IF page.round = 1 THEN BOOLEAN ELSE {FALSE}) :
                   page' = IF keep
                             THEN [page EXCEPT !.saved = CursorAt(inner.pos + 1),
                                               !.got = Len(delivered')]
                             ELSE page
              /\ \E r \in {Nil, Stop, CbErr(0)} :
                   /\ cbRet' = r
                   /\ IF (direct /\ r # Nil) \/ (~direct /\ CbReturnsEarly(r))
                        THEN /\ inner' = [inner EXCEPT !.err = r]
                             /\ rpc' = "afterInner"
                             /\ UNCHANGED <<rcount, cursor>>
                      ELSE IF direct
                        THEN /\ inner' = [inner EXCEPT !.pos = @ + 1, !.left = @ - 1]
                             /\ rpc' = rpc
                             /\ UNCHANGED <<rcount, cursor>>
                      ELSE /\ rcount' = rcount + 1
                           /\ IF TakesCursor(rcount', bs)
                                THEN \E ok \in BOOLEAN :
                                       IF ok
                                         THEN /\ cursor' = CursorAt(inner.pos + 1)
                                              /\ inner' = [inner EXCEPT !.pos = @ + 1,
                                                                        !.left = @ - 1]
                                              /\ rpc' = rpc
                                         ELSE /\ cursor' = cursor
                                              /\ inner' = [inner EXCEPT !.err = ErrGetCursor]
                                              /\ rpc' = "afterInner"
                                ELSE /\ cursor' = cursor
                                     /\ inner' = [inner EXCEPT !.pos = @ + 1, !.left = @ - 1]
                                     /\ rpc' = rpc
    /\ UNCHANGED <<bf, store, fq, direct, limit, runCalls, rret>>
    /\ UNCHANGED <<multiVars, txnVars, datVars, flakyVars, moreVars>>

\* the inner Run has no further record
InnerEnd ==
    /\ rpc = "inner"
    /\ ~InnerHasNext
    /\ rpc' = "afterInner"
    /\ UNCHANGED <<bf, store, fq, direct, cursor, limit, rcount, inner, runCalls,
                   delivered, events, rret, page>>
    /\ UNCHANGED cbRet
    /\ UNCHANGED <<multiVars, txnVars, datVars, flakyVars, moreVars>>

\* the inner Run fails
InnerRunFail ==
    /\ rpc = "inner"
    /\ inner' = [inner EXCEPT !.err = RpcErr(0)]
    /\ rpc' = "afterInner"
    /\ UNCHANGED <<bf, store, fq, direct, cursor, limit, rcount, runCalls,
                   delivered, events, rret, page>>
    /\ UNCHANGED cbRet
    /\ UNCHANGED <<multiVars, txnVars, datVars, flakyVars, moreVars>>

NextAfterBatchSkipsCallback(hasCallback) == "loop"
\* if bf.queryBatchCallback != nil { ... bf.queryBatchCallback(bf.ic) ... }
NextAfterBatch(hasCallback) == IF hasCallback THEN "batchCb" ELSE "loop"

AfterLimitKeepsGoing(lim) == FALSE
\* limit -= count; if limit <= 0 { break }
AfterLimitDone(lim) == lim <= 0

\* the inner Run has returned (Stop from the callback as nil): the rest of
\* the loop body
AfterInner ==
    /\ rpc = "afterInner"
    /\ LET err == filterStop(inner.err) IN
       IF direct \/ err # Nil
         THEN /\ rret' = err
              /\ rpc' = "done"
              /\ limit' = limit
       ELSE IF ~cursor.set
         THEN /\ rret' = Nil
              /\ rpc' = "done"
              /\ limit' = limit
       ELSE IF fq.hasLimit /\ AfterLimitDone(limit - rcount)
         THEN /\ rret' = Nil
              /\ rpc' = "done"
              /\ limit' = limit - rcount
       ELSE /\ limit' = (IF fq.hasLimit THEN limit - rcount ELSE limit)
            /\ rpc' = NextAfterBatch(bf.hasCallback)
            /\ rret' = rret
    /\ UNCHANGED <<bf, store, fq, direct, cursor, rcount, inner, runCalls,
                   delivered, events, page>>
    /\ UNCHANGED cbRet
    /\ UNCHANGED <<multiVars, txnVars, datVars, flakyVars, moreVars>>

\* bf.queryBatchCallback(bf.ic)
BatchCallback ==
    /\ rpc = "batchCb"
    /\ events' = Append(events, "C")
    /\ \E r \in {Nil, ErrBatchCb} :
         IF r # Nil
           THEN rret' = r /\ rpc' = "done"
           ELSE rret' = rret /\ rpc' = "loop"
    /\ UNCHANGED <<bf, store, fq, direct, cursor, limit, rcount, inner, runCalls,
                   delivered, page>>
    /\ UNCHANGED cbRet
    /\ UNCHANGED <<multiVars, txnVars, datVars, flakyVars, moreVars>>

\* the caller runs the same query again from the cursor it retained
NextPage ==
    /\ rpc = "done"
    /\ page.round = 1
    /\ page.saved.set
    /\ page' = [page EXCEPT !.round = 2]
    /\ fq' = [fq EXCEPT !.start = page.saved]
    /\ rpc' = "start"
    /\ direct' = FALSE
    /\ cursor' = NoCursor
    /\ limit' = 0
    /\ rcount' = 0
    /\ inner' = NoInner
    /\ runCalls' = <<>>
    /\ delivered' = <<>>
    /\ events' = <<>>
    /\ rret' = Nil
    /\ cbRet' = Nil
    /\ UNCHANGED <<bf, store>>
    /\ UNCHANGED <<multiVars, txnVars, datVars, flakyVars, moreVars>>

NextRun ==
    \/ RunStart
    \/ LoopIssue
    \/ InnerRecord
    \/ InnerEnd
    \/ InnerRunFail
    \/ AfterInner
    \/ BatchCallback
    \/ NextPage

SpecRun == InitRun /\ [][NextRun]_vars

(***************************************************************************)
(* Properties of Run.                                                      *)
(***************************************************************************)
\* the records at positions from, from+1, ... (n of them) of the result order
Records(from, n) == [k \in 1..n |-> RecVal(from + k - 1)]
\* what the backend's Run of q delivers to a callback that never stops
Unbatched(q) ==
    LET from == StartPos(q) + q.offset
        rest == store - from
    IN  Records(from, IF q.hasLimit THEN Min(q.limit, rest) ELSE rest)
\* the number of records the query matches
Matching == store - StartPos(fq)
\* the batch size
B == bf.queryBatchSize.low
\* 1 <= B <= MaxInt32
SizeValid == bf.queryBatchSize.high = 0 /\ B >= 1
\* the query is one that Run batches: batching on (enabled, or not
\* specified and no projection)
BatchingOn ==
    IF bf.batchingSpecified THEN bf.batchingEnabled ELSE ~fq.project
\* Run has returned, the backend did not fail, and neither callback
\* returned an error or Stop
NoFailure == inner.err = Nil /\ rret # ErrBatchCb
Clean == rpc = "done" /\ rret = Nil /\ inner.err = Nil
IsCall(e) == e \in {"R", "C"}
IsCallback(e) == e = "C"
Calls == SelectSeq(events, IsCall)

C3_CeilPlusOneCalls ==
    (Clean /\ BatchingOn /\ SizeValid /\ ~fq.hasLimit) =>
        Len(runCalls) = Ceil(Matching, B) + 1

\* C3 (amended): without a limit the number of inner Run calls is
\* floor(M/B) + 1: floor(M/B) sub-queries that deliver B records each and a
\* last one that delivers the M mod B records left (none when B divides M)
\* and so observes the end.
C3_FloorPlusOneCalls ==
    (Clean /\ BatchingOn /\ SizeValid /\ ~fq.hasLimit) =>
      /\ Len(runCalls) = (Matching \div B) + 1
      /\ Len(delivered) = Matching
      /\ rcount = Matching % B

\* three records in batches of two: two calls, where ceil(3/2) + 1 is three
C3_Witness ==
    /\ Clean /\ BatchingOn /\ SizeValid /\ ~fq.hasLimit
    /\ Matching = 3 /\ B = 2 /\ Len(runCalls) = 2

\* C4 (as stated): floor(M/B) + 1 calls without a limit, ceil(L/B) calls
\* with a limit L <= M.
C4_CallCountsAsStated ==
    (Clean /\ BatchingOn /\ SizeValid) =>
      /\ ~fq.hasLimit => Len(runCalls) = (Matching \div B) + 1
      /\ (fq.hasLimit /\ fq.limit <= Matching) =>
             Len(runCalls) = Ceil(fq.limit, B)

\* C4 (amended): a Run without a limit issues floor(M/B) + 1 inner Run
\* calls and a Run with a limit 1 <= L <= M issues ceil(L/B) (one call when
\* L = 0); the k-th sub-query starts where the one before ended and its
\* limit is min(B, what is left of the limit), and the loop ends when
\* nothing is left of the limit.
C4_CallCounts ==
    (Clean /\ BatchingOn /\ SizeValid) =>
      /\ ~fq.hasLimit => Len(runCalls) = (Matching \div B) + 1
      /\ (fq.hasLimit /\ 1 <= fq.limit /\ fq.limit <= Matching) =>
           /\ Len(runCalls) = Ceil(fq.limit, B)
           /\ limit = fq.limit % B
           /\ Len(delivered) = fq.limit
      /\ (fq.hasLimit /\ fq.limit = 0) => Len(runCalls) = 1
      /\ \A k \in 1..Len(runCalls) :
           /\ StartPos(runCalls[k]) = StartPos(fq) + (k - 1) * B
           /\ runCalls[k].hasLimit
           /\ runCalls[k].limit =
                (IF fq.hasLimit THEN Min(B, fq.limit - (k - 1) * B) ELSE B)

\* a limit of four in batches of two: two calls, the second reaches the limit
C4_Witness ==
    /\ Clean /\ BatchingOn /\ SizeValid
    /\ fq.hasLimit /\ fq.limit = 4 /\ Matching = 4 /\ B = 2
    /\ Len(runCalls) = 2 /\ limit = 0

\* C5: the caller retains the cursor it takes at the k-th record of a Run
\* and runs the same query again from that cursor: the second Run delivers
\* the records that follow the first k in the order of the unbatched run
\* (all of them, or the first L for a query with limit L), wherever k falls
\* in a sub-batch.
C5_CursorRoundTrip ==
    (page.round = 2 /\ Clean) =>
      LET from == page.from + page.got
          rest == store - from
      IN  /\ from <= store
          /\ delivered = Records(from, IF fq.hasLimit
                                          THEN Min(fq.limit, rest) ELSE rest)

\* the cursor is taken at the first record, inside a sub-batch of two; the
\* second Run delivers the other three records in two sub-queries
C5_Witness ==
    /\ page.round = 2 /\ Clean /\ ~direct
    /\ SizeValid /\ B = 2 /\ page.got = 1 /\ page.from = 0
    /\ ~fq.hasLimit /\ store = 4
    /\ Len(runCalls) = 2 /\ Len(delivered) = 3

\* C6: with a batch callback installed, a batched Run invokes it exactly
\* once between two consecutive inner Run calls, never before the first and
\* never after the last (one less than the inner Run calls on success);
\* when it returns an error Run returns that error at once: no inner Run
\* call and no record comes after it.  Without one, and in an unbatched
\* Run, there is no invocation.
C6_CallbackBetweenSubQueries ==
    rpc # "idle" =>
      /\ bf.hasCallback =>
             \A k \in 1..Len(Calls) : Calls[k] = (IF k % 2 = 1 THEN "R" ELSE "C")
      /\ (~bf.hasCallback \/ direct) => SelectSeq(events, IsCallback) = <<>>
      /\ (bf.hasCallback /\ ~direct) => Len(Calls) >= 2 * Len(runCalls) - 1
      /\ (bf.hasCallback /\ rpc = "done" /\ rret # ErrBatchCb /\ Len(runCalls) >= 1) =>
             Len(SelectSeq(events, IsCallback)) = Len(runCalls) - 1
      /\ rret = ErrBatchCb =>
             /\ rpc = "done"
             /\ events[Len(events)] = "C"
      /\ (rpc = "done" /\ events # <<>> /\ events[Len(events)] = "C") =>
             rret = ErrBatchCb

\* the callback fails after the second sub-query
C6_Witness ==
    /\ rpc = "done" /\ rret = ErrBatchCb
    /\ Calls = <<"R", "C", "R", "C">>
    /\ Len(delivered) = 4

\* C10: a projection query, batching not specified: one inner Run call with
\* the finalized query itself, no batch callback; batching explicitly
\* disabled, or a batch size <= 0: the same for every query; otherwise (no
\* projection and nothing specified, or batching explicitly enabled) the
\* query is run as sub-queries of at most the batch size.
C10_WhichQueriesAreBatched ==
    rpc \notin {"idle", "start"} =>
      IF \/ fq.project /\ ~bf.batchingSpecified
         \/ bf.batchingSpecified /\ ~bf.batchingEnabled
         \/ LeqZero(bf.queryBatchSize)
        THEN /\ direct
             /\ runCalls = <<fq>>
             /\ SelectSeq(events, IsCallback) = <<>>
        ELSE /\ ~direct
             /\ \A k \in 1..Len(runCalls) :
                  /\ runCalls[k].hasLimit
                  /\ runCalls[k].limit <= B
                  /\ runCalls[k].project = fq.project
             /\ Clean => (Len(runCalls) >= 1 /\ Len(runCalls) >= Len(delivered) \div B)

\* a projection query over four records with batch size two runs in one call
C10_Witness ==
    /\ Clean /\ fq.project /\ ~bf.batchingSpecified /\ SizeValid /\ B = 2
    /\ direct /\ runCalls = <<fq>> /\ Len(delivered) = 4

\* a projection query with batching explicitly enabled runs in sub-queries
C10_WitnessBatchedProjection ==
    /\ Clean /\ fq.project /\ bf.batchingSpecified /\ bf.batchingEnabled
    /\ SizeValid /\ B = 2 /\ ~direct /\ Len(runCalls) = 3 /\ Len(delivered) = 4

(***************************************************************************)
(* filter/txndefer: callbacks registered with Defer inside a transaction   *)
(* run once the transaction has landed.  The inner RunInTransaction (the   *)
(* backend) runs the body one or more times, commits, and returns.         *)
(***************************************************************************)
\* how many times the inner RunInTransaction runs the body at most
MaxAttempts == 3
\* how many callbacks one attempt registers at most
MaxDefers == 2

ErrConcurrentTransaction == [kind |-> "ErrConcurrentTransaction", at |-> 0, errs |-> <<>>]
\* errors.New("boom"): an error of the body that is no conflict
ErrBoom == [kind |-> "boom", at |-> 0, errs |-> <<>>]
\* a commit that fails for another reason than a conflict
ErrCommit == [kind |-> "commit", at |-> 0, errs |-> <<>>]

\* the context the caller gave to datastore.RunInTransaction
OuterCtx == [attempt |-> 0, txn |-> FALSE, state |-> FALSE]
\* the context the inner RunInTransaction gives to the body in attempt a
TxnCtx(a) == [attempt |-> a, txn |-> TRUE, state |-> FALSE]
\* ds.WithoutTransaction(ctx)
WithoutTransaction(ctx) == [ctx EXCEPT !.txn = FALSE]
\* context.WithValue(ctx, &ctxKey, &state)
WithState(ctx) == [ctx EXCEPT !.state = TRUE]

NoTxnCtxKeepsTxn(ctx) == ctx
\* noTxnCtx = ds.WithoutTransaction(ctx)
NoTxnCtxOf(ctx) == WithoutTransaction(ctx)

\* the context the body runs with in attempt a: with the filter, the closure
\* adds the txnState; without it, the body is called by the backend directly
BodyCtx(a) == IF installed THEN WithState(TxnCtx(a)) ELSE TxnCtx(a)

ResetKeeps(s) == s
\* txnState.reset: s.cbs = s.cbs[:0]
reset(s) == <<>>

\* txnState.deferCB: s.cbs = append(s.cbs, cb)
deferCB(s, cb) == Append(s, cb)

DeferNeverPanics(ctx) == FALSE
\* state, _ := ctx.Value(&ctxKey).(*txnState); if state == nil { panic(...) }
DeferPanics(ctx) == ~ctx.state

\* the callback a call of Defer hands over: each call brings a new one
NewCb == Len(defers) + 1
DeferCall(cb, ctx, during, outcome) ==
    [cb |-> cb, ctx |-> ctx, at |-> attempt, during |-> during,
     outcome |-> outcome]

InitTxn ==
    /\ cbRet = Nil /\ estore = NoStore /\ etxns = <<>> /\ gsp = NoGsp
    /\ lst = NoLst /\ lprocs = <<>> /\ lhist = NoHist /\ crw = NoCrw
    /\ both = NoBoth
    /\ bf = [batchingSpecified |-> FALSE, batchingEnabled |-> FALSE,
             maxPutSize |-> 0, queryBatchSize |-> Int64(0, 0),
             hasCallback |-> FALSE]
    /\ op = "none" /\ keys = <<>> /\ vals = <<>> /\ mpc = "idle" /\ i = 0
    /\ groups = <<>> /\ received = <<>> /\ errs = <<>> /\ ret = Nil
    /\ store = 0 /\ fq = NoQuery /\ rpc = "idle" /\ direct = FALSE
    /\ cursor = NoCursor /\ limit = 0 /\ rcount = 0 /\ inner = NoInner
    /\ runCalls = <<>> /\ delivered = <<>> /\ events = <<>> /\ rret = Nil
    /\ page = NoPage
    /\ dat = <<>> /\ marks = <<>> /\ dkeys = <<>> /\ dvals = <<>> /\ dpc = "idle"
    /\ dres = NoDrop /\ lookups = NoLookup
    /\ params = NoParams /\ procs = <<>> /\ lock = 0 /\ taken = 0
    /\ installed \in BOOLEAN
    /\ tpc = "start"
    /\ attempt = 0
    /\ cbs = <<>>
    /\ noTxnCtx = NoCtx
    /\ terr = Nil
    /\ execK = 0
    /\ executed = <<>>
    /\ defers = <<>>

\* Defer(ctx, cb), called while RunInTransaction is at "during".  Without a
\* txnState in the context it panics.  Otherwise deferCB takes the lock of
\* the txnState and appends; while execCBs runs, that lock is held by
\* execCBs itself and the call never returns.
Defer(ctx, during) ==
    IF DeferPanics(ctx)
      THEN /\ tpc' = "panic"
           /\ cbs' = cbs
           /\ defers' = Append(defers, DeferCall(NewCb, ctx, during, "panic"))
      ELSE IF during = "exec"
        THEN /\ tpc' = "blocked"
             /\ cbs' = cbs
             /\ defers' = Append(defers, DeferCall(NewCb, ctx, during, "blocked"))
        ELSE /\ tpc' = tpc
             /\ cbs' = deferCB(cbs, NewCb)
             /\ defers' = Append(defers,
                                 DeferCall(NewCb, ctx, during, "registered"))

\* Defer called with the caller's context, before any transaction
DeferOutside ==
    /\ tpc = "start"
    /\ Defer(OuterCtx, "outside")
    /\ UNCHANGED <<installed, attempt, noTxnCtx, terr, execK, executed>>
    /\ UNCHANGED <<batcherVars, datVars, flakyVars, moreVars>>

\* RunInTransaction is called: var noTxnCtx; state := txnState{}; the inner
\* RunInTransaction is entered
RunInTransaction ==
    /\ tpc = "start"
    /\ tpc' = "inner"
    /\ cbs' = <<>>
    /\ noTxnCtx' = NoCtx
    /\ UNCHANGED <<installed, attempt, terr, execK, executed, defers>>
    /\ UNCHANGED <<batcherVars, datVars, flakyVars, moreVars>>

\* the inner RunInTransaction starts an attempt: it calls the closure, which
\* saves the non-transactional context, resets the state and calls the body
WrappedBody ==
    /\ tpc = "inner"
    /\ attempt < MaxAttempts
    /\ attempt' = attempt + 1
    /\ tpc' = "body"
    /\ IF installed
         THEN /\ noTxnCtx' = NoTxnCtxOf(TxnCtx(attempt'))
              /\ cbs' = reset(cbs)
         ELSE UNCHANGED <<noTxnCtx, cbs>>
    /\ UNCHANGED <<installed, terr, execK, executed, defers>>
    /\ UNCHANGED <<batcherVars, datVars, flakyVars, moreVars>>

\* the Defer calls of the current attempt
DefersOf(a) == SelectSeq(defers, LAMBDA d : d.at = a /\ d.during = "body")

\* the body calls Defer, with its own context or with the caller's
BodyDefers ==
    /\ tpc = "body"
    /\ Len(DefersOf(attempt)) < MaxDefers
    /\ \E ctx \in {BodyCtx(attempt), OuterCtx} : Defer(ctx, "body")
    /\ UNCHANGED <<installed, attempt, noTxnCtx, terr, execK, executed>>
    /\ UNCHANGED <<batcherVars, datVars, flakyVars, moreVars>>

\* the body returns: nil leads to the commit, a conflict to a retry or to
\* giving up, any other error ends the inner RunInTransaction with it
BodyReturns ==
    /\ tpc = "body"
    /\ \E r \in {Nil, ErrConcurrentTransaction, ErrBoom} :
         IF r = Nil
           THEN tpc' = "commit" /\ terr' = terr
           ELSE IF r = ErrConcurrentTransaction
             THEN tpc' = "conflict" /\ terr' = terr
             ELSE tpc' = "returned" /\ terr' = r
    /\ UNCHANGED <<installed, attempt, cbs, noTxnCtx, execK, executed, defers>>
    /\ UNCHANGED <<batcherVars, datVars, flakyVars, moreVars>>

\* the commit lands, meets a conflict, or fails
Commit ==
    /\ tpc = "commit"
    /\ \E r \in {Nil, ErrConcurrentTransaction, ErrCommit} :
         IF r = ErrConcurrentTransaction
           THEN tpc' = "conflict" /\ terr' = terr
           ELSE tpc' = "returned" /\ terr' = r
    /\ UNCHANGED <<installed, attempt, cbs, noTxnCtx, execK, executed, defers>>
    /\ UNCHANGED <<batcherVars, datVars, flakyVars, moreVars>>

\* after a conflict the inner RunInTransaction tries again
Retry ==
    /\ tpc = "conflict"
    /\ attempt < MaxAttempts
    /\ tpc' = "inner"
    /\ UNCHANGED <<installed, attempt, cbs, noTxnCtx, terr, execK, executed,
                   defers>>
    /\ UNCHANGED <<batcherVars, datVars, flakyVars, moreVars>>

\* after a conflict the inner RunInTransaction is out of attempts
GiveUp ==
    /\ tpc = "conflict"
    /\ tpc' = "returned"
    /\ terr' = ErrConcurrentTransaction
    /\ UNCHANGED <<installed, attempt, cbs, noTxnCtx, execK, executed, defers>>
    /\ UNCHANGED <<batcherVars, datVars, flakyVars, moreVars>>

ShouldExecAlways(err) == TRUE
\* if err == nil { state.execCBs(noTxnCtx) }
ShouldExec(err) == err = Nil

\* the inner RunInTransaction has returned err
InnerReturned ==
    /\ tpc = "returned"
    /\ IF installed /\ ShouldExec(terr)
         THEN tpc' = "exec" /\ execK' = 0
         ELSE tpc' = "done" /\ execK' = execK
    /\ UNCHANGED <<installed, attempt, cbs, noTxnCtx, terr, executed, defers>>
    /\ UNCHANGED <<batcherVars, datVars, flakyVars, moreVars>>

Reverse(s) == [k \in 1..Len(s) |-> s[Len(s) + 1 - k]]
ExecOrderForward(s) == s
\* for i := len(s.cbs) - 1; i >= 0; i-- { s.cbs[i](ctx) }
ExecOrder(s) == Reverse(s)

\* execCBs calls the next callback with noTxnCtx.  The callback returns, or
\* calls Defer with the context it was given, or calls Defer with the
\* transactional context it captured from the body.
execCBs ==
    /\ tpc = "exec"
    /\ execK < Len(cbs)
    /\ executed' = Append(executed,
                          [cb |-> ExecOrder(cbs)[execK + 1], ctx |-> noTxnCtx])
    /\ \E does \in {"return", "Defer(ctx)", "Defer(captured)"} :
         IF does = "return"
           THEN /\ execK' = execK + 1
                /\ UNCHANGED <<tpc, cbs, defers>>
           ELSE /\ execK' = execK
                /\ Defer(IF does = "Defer(ctx)" THEN noTxnCtx
                         ELSE BodyCtx(attempt), "exec")
    /\ UNCHANGED <<installed, attempt, noTxnCtx, terr>>
    /\ UNCHANGED <<batcherVars, datVars, flakyVars, moreVars>>

\* execCBs is through; RunInTransaction returns err
ExecReturn ==
    /\ tpc = "exec"
    /\ execK = Len(cbs)
    /\ tpc' = "done"
    /\ UNCHANGED <<installed, attempt, cbs, noTxnCtx, terr, execK, executed,
                   defers>>
    /\ UNCHANGED <<batcherVars, datVars, flakyVars, moreVars>>

NextTxn ==
    \/ DeferOutside
    \/ RunInTransaction
    \/ WrappedBody
    \/ BodyDefers
    \/ BodyReturns
    \/ Commit
    \/ Retry
    \/ GiveUp
    \/ InnerReturned
    \/ execCBs
    \/ ExecReturn

SpecTxn == InitTxn /\ [][NextTxn]_vars

(***************************************************************************)
(* Properties of the deferred callbacks.                                   *)
(***************************************************************************)
\* the callbacks the body registered in attempt a, in registration order
RegisteredIn(a) ==
    LET ds == SelectSeq(defers, LAMBDA d : d.at = a /\ d.during = "body"
                                          /\ d.outcome = "registered")
    IN  [k \in 1..Len(ds) |-> ds[k].cb]
\* the callbacks that have started, in execution order
Ran == [k \in 1..Len(executed) |-> executed[k].cb]
IsPrefix(p, q) == Len(p) <= Len(q) /\ \A k \in 1..Len(p) : p[k] = q[k]
\* RunInTransaction of the filter has returned nil
Landed == installed /\ tpc = "done" /\ terr = Nil
\* the context is not that of a transaction run through the filter
NotInFilteredTxn(ctx) == ~ctx.txn \/ ~installed

\* C12: the callbacks run one after another in the reverse of the order the
\* successful attempt registered them in, none twice; when RunInTransaction
\* has returned nil, every one of them has run.
C12_RunInReverseOrderOnce ==
    /\ IsPrefix(Ran, Reverse(RegisteredIn(attempt)))
    /\ \A k, l \in 1..Len(Ran) : Ran[k] = Ran[l] => k = l
    /\ Landed => Ran = Reverse(RegisteredIn(attempt))

\* C1 then C2 registered in one attempt that landed: C2 ran, then C1
C12_Witness ==
    /\ Landed /\ attempt = 1
    /\ Len(RegisteredIn(1)) = 2
    /\ Ran = <<RegisteredIn(1)[2], RegisteredIn(1)[1]>>

\* C13: when the inner RunInTransaction returned an error, no callback of
\* any attempt is ever executed.
C13_NoCallbackAfterFailure ==
    terr # Nil => executed = <<>>

\* every attempt met a conflict and registered a callback; RunInTransaction
\* returned the conflict and nothing ran
C13_Witness ==
    /\ installed /\ tpc = "done" /\ terr = ErrConcurrentTransaction
    /\ attempt = MaxAttempts
    /\ \A a \in 1..attempt : Len(RegisteredIn(a)) > 0
    /\ executed = <<>>

\* C14: when the body ran several times and RunInTransaction returned nil,
\* the callbacks that ran are those of the last attempt, each once; none of
\* an earlier attempt has run.
C14_OnlyFinalAttemptRuns ==
    /\ \A k \in 1..Len(executed) : \A a \in 1..(attempt - 1) :
         \A j \in 1..Len(RegisteredIn(a)) : executed[k].cb # RegisteredIn(a)[j]
    /\ Landed =>
         /\ Len(executed) = Len(RegisteredIn(attempt))
         /\ \A j \in 1..Len(RegisteredIn(attempt)) :
              Cardinality({k \in 1..Len(executed) :
                             executed[k].cb = RegisteredIn(attempt)[j]}) = 1

\* one callback per attempt, success on the third attempt: one execution
C14_Witness ==
    /\ Landed /\ attempt = 3
    /\ \A a \in 1..3 : Len(RegisteredIn(a)) = 1
    /\ Len(executed) = 1
    /\ executed[1].cb = RegisteredIn(3)[1]

\* C15: a callback starts only after the inner RunInTransaction has returned
\* nil, and the context it gets is the one of the last attempt with the
\* transaction taken out.
C15_AfterCommitWithoutTransaction ==
    executed # <<>> =>
      /\ terr = Nil
      /\ tpc \in {"exec", "done", "panic", "blocked"}
      /\ \A k \in 1..Len(executed) :
           /\ ~executed[k].ctx.txn
           /\ executed[k].ctx.attempt = attempt
           /\ executed[k].ctx = WithoutTransaction(TxnCtx(attempt))

\* the second attempt landed and its callback got that attempt's context
C15_Witness ==
    /\ Landed /\ attempt = 2
    /\ Len(executed) = 1
    /\ executed[1].ctx = [attempt |-> 2, txn |-> FALSE, state |-> FALSE]

MaxN == 3
\* how many times MarkForRemoval is called at most
MaxMarks == 3

\* the key at index j of the input
DKey(j) == 300 + j
\* the value (or meta getter) at index j of the input
DVal(j) == 400 + j

\* sort.Search(len(s), func(h) bool { return s[h] >= x }) between lo and hi
RECURSIVE Search(_, _, _, _)
Search(s, x, lo, hi) ==
    IF lo < hi
      THEN LET h == (lo + hi) \div 2
           IN  IF s[h + 1] >= x THEN Search(s, x, lo, h)
                                ELSE Search(s, x, h + 1, hi)
      ELSE lo

SearchIntsAtEnd(s, x) == Len(s)
\* sort.SearchInts(*dat, originalIndex)
SearchInts(s, x) == Search(s, x, 0, Len(s))

\* MarkForRemoval: append when the index is beyond the largest one, else
\* find its place, return when it is there already, else insert it.  (The
\* size hint N only sets the capacity of the slice.)
MarkForRemoval(d, originalIndex) ==
    IF Len(d) = 0 \/ originalIndex > d[Len(d)]
      THEN Append(d, originalIndex)
      ELSE LET insIdx == SearchInts(d, originalIndex)
           IN  IF insIdx < Len(d) /\ d[insIdx + 1] = originalIndex
                 THEN d
                 ELSE SubSeq(d, 1, insIdx) \o <<originalIndex>>
                        \o SubSeq(d, insIdx + 1, Len(d))

\* the loop of mustCompress from entry k of dat on: the (i, j) ranges that
\* include is called with
RECURSIVE Ranges(_, _, _, _)
Ranges(d, k, prevDropped, N) ==
    IF k > Len(d)
      THEN << <<prevDropped, N>> >>
      ELSE (IF d[k] > prevDropped THEN << <<prevDropped, d[k]>> >> ELSE <<>>)
             \o Ranges(d, k + 1, d[k] + 1, N)

\* if len(dat) == 0 || N == 0 { return }
NothingToDo(d, N) == Len(d) = 0 \/ N = 0

\* mustCompress: does it panic, does it call init, and the ranges it includes
mustCompress(d, N) ==
    IF NothingToDo(d, N)
      THEN [panicked |-> FALSE, init |-> FALSE, ranges |-> <<>>]
      ELSE IF d[Len(d)] >= N
        THEN [panicked |-> TRUE, init |-> FALSE, ranges |-> <<>>]
        ELSE [panicked |-> FALSE, init |-> TRUE, ranges |-> Ranges(d, 1, 0, N)]

\* the include closures: append(new, arr[i:j]...) for every range from k on
RECURSIVE Include(_, _, _)
Include(arr, ranges, k) ==
    IF k > Len(ranges)
      THEN <<>>
      ELSE SubSeq(arr, ranges[k][1] + 1, ranges[k][2]) \o Include(arr, ranges, k + 1)

\* what a Drop* method returns for one array: the array itself when init was
\* not called, else the new array the include calls built
Compressed(arr, mc) == IF mc.init THEN Include(arr, mc.ranges, 1) ELSE arr

OriginalIndexIdentity(d, reducedIndex) == reducedIndex
\* OriginalIndex: for every marked index not above the running index, the
\* running index moves up by one
RECURSIVE OriginalIndexFrom(_, _, _)
OriginalIndexFrom(d, k, reducedIndex) ==
    IF k > Len(d) THEN reducedIndex
    ELSE IF reducedIndex < d[k] THEN reducedIndex
    ELSE OriginalIndexFrom(d, k + 1, reducedIndex + 1)
OriginalIndex(d, reducedIndex) == OriginalIndexFrom(d, 1, reducedIndex)

InitDat ==
    /\ cbRet = Nil /\ estore = NoStore /\ etxns = <<>> /\ gsp = NoGsp
    /\ lst = NoLst /\ lprocs = <<>> /\ lhist = NoHist /\ crw = NoCrw
    /\ both = NoBoth
    /\ bf = [batchingSpecified |-> FALSE, batchingEnabled |-> FALSE,
             maxPutSize |-> 0, queryBatchSize |-> Int64(0, 0),
             hasCallback |-> FALSE]
    /\ op = "none" /\ keys = <<>> /\ vals = <<>> /\ mpc = "idle" /\ i = 0
    /\ groups = <<>> /\ received = <<>> /\ errs = <<>> /\ ret = Nil
    /\ store = 0 /\ fq = NoQuery /\ rpc = "idle" /\ direct = FALSE
    /\ cursor = NoCursor /\ limit = 0 /\ rcount = 0 /\ inner = NoInner
    /\ runCalls = <<>> /\ delivered = <<>> /\ events = <<>> /\ rret = Nil
    /\ page = NoPage
    /\ installed = FALSE /\ tpc = "idle" /\ attempt = 0 /\ cbs = <<>>
    /\ noTxnCtx = NoCtx /\ terr = Nil /\ execK = 0 /\ executed = <<>>
    /\ defers = <<>>
    /\ params = NoParams /\ procs = <<>> /\ lock = 0 /\ taken = 0
    /\ dat = <<>>
    /\ marks = <<>>
    /\ \E n \in 0..MaxN : dkeys = [j \in 1..n |-> DKey(j - 1)]
    /\ \E m \in {0, Len(dkeys), Len(dkeys) + 1} :
         dvals = [j \in 1..m |-> DVal(j - 1)]
    /\ dpc = "mark"
    /\ dres = NoDrop
    /\ lookups = NoLookup

\* dat.MarkForRemoval(originalIndex, N)
MarkForRemovalCall ==
    /\ dpc = "mark"
    /\ Len(marks) < MaxMarks
    /\ \E originalIndex \in 0..MaxN :
         /\ dat' = MarkForRemoval(dat, originalIndex)
         /\ marks' = Append(marks, originalIndex)
    /\ UNCHANGED <<dkeys, dvals, dpc, dres, lookups>>
    /\ UNCHANGED <<batcherVars, txnVars, flakyVars, moreVars>>

\* dat.DropKeys(keys)
DropKeys ==
    /\ dpc = "mark"
    /\ dpc' = "dropped"
    /\ LET mc == mustCompress(dat, Len(dkeys))
       IN  dres' = [method |-> "DropKeys", panicked |-> mc.panicked,
                    keys |-> IF mc.panicked THEN <<>> ELSE Compressed(dkeys, mc),
                    vals |-> <<>>]
    /\ UNCHANGED <<dat, marks, dkeys, dvals, lookups>>
    /\ UNCHANGED <<batcherVars, txnVars, flakyVars, moreVars>>

\* dat.DropKeysAndMeta(keys, meta): meta is empty or as long as keys; an
\* empty meta stays empty
DropKeysAndMeta ==
    /\ dpc = "mark"
    /\ Len(dvals) \in {0, Len(dkeys)}
    /\ dpc' = "dropped"
    /\ LET mc == mustCompress(dat, Len(dkeys))
       IN  dres' = [method |-> "DropKeysAndMeta", panicked |-> mc.panicked,
                    keys |-> IF mc.panicked THEN <<>> ELSE Compressed(dkeys, mc),
                    vals |-> IF mc.panicked \/ Len(dvals) = 0 THEN <<>>
                             ELSE Compressed(dvals, mc)]
    /\ UNCHANGED <<dat, marks, dkeys, dvals, lookups>>
    /\ UNCHANGED <<batcherVars, txnVars, flakyVars, moreVars>>

\* dat.DropKeysAndVals(keys, vals): panics on arrays of different lengths
DropKeysAndVals ==
    /\ dpc = "mark"
    /\ dpc' = "dropped"
    /\ IF Len(dkeys) # Len(dvals)
         THEN dres' = [method |-> "DropKeysAndVals", panicked |-> TRUE,
                       keys |-> <<>>, vals |-> <<>>]
         ELSE LET mc == mustCompress(dat, Len(dkeys))
              IN  dres' = [method |-> "DropKeysAndVals", panicked |-> mc.panicked,
                           keys |-> IF mc.panicked THEN <<>>
                                    ELSE Compressed(dkeys, mc),
                           vals |-> IF mc.panicked THEN <<>>
                                    ELSE Compressed(dvals, mc)]
    /\ UNCHANGED <<dat, marks, dkeys, dvals, lookups>>
    /\ UNCHANGED <<batcherVars, txnVars, flakyVars, moreVars>>

\* dat.OriginalIndex(reducedIndex), asked after a Drop* call that returned
OriginalIndexCall ==
    /\ dpc = "dropped"
    /\ ~dres.panicked
    /\ \E reducedIndex \in 0..MaxN :
         lookups' = [asked |-> reducedIndex,
                     got |-> OriginalIndex(dat, reducedIndex)]
    /\ UNCHANGED <<dat, marks, dkeys, dvals, dpc, dres>>
    /\ UNCHANGED <<batcherVars, txnVars, flakyVars, moreVars>>

NextDat ==
    \/ MarkForRemovalCall
    \/ DropKeys
    \/ DropKeysAndMeta
    \/ DropKeysAndVals
    \/ OriginalIndexCall

SpecDat == InitDat /\ [][NextDat]_vars

(***************************************************************************)
(* Properties of DroppedArgTracker.                                        *)
(***************************************************************************)
\* the set D of marked indices
Marked == {marks[k] : k \in 1..Len(marks)}
\* the indices of the input that are not marked, ascending
Survivors ==
    SelectSeq([j \in 1..Len(dkeys) |-> j - 1], LAMBDA x : x \notin Marked)
StrictlyAscending(d) == \A k \in 1..(Len(d) - 1) : d[k] < d[k + 1]

\* C17: with all marked indices below N, in whatever order they were
\* marked, DropKeys returns the N - |D| unmarked keys in their order, and
\* OriginalIndex(i) is the input index of the i-th of them.
C17_DropKeysAndOriginalIndex ==
    (dpc = "dropped" /\ dres.method = "DropKeys"
       /\ \A x \in Marked : x < Len(dkeys)) =>
      /\ ~dres.panicked
      /\ Len(dres.keys) = Len(dkeys) - Cardinality(Marked)
      /\ dres.keys = [k \in 1..Len(Survivors) |-> dkeys[Survivors[k] + 1]]
      /\ \A r \in 0..(Len(dres.keys) - 1) :
           /\ OriginalIndex(dat, r) = Survivors[r + 1]
           /\ dkeys[OriginalIndex(dat, r) + 1] = dres.keys[r + 1]
           /\ lookups.asked = r => lookups.got = Survivors[r + 1]

\* indices 2 then 0 marked of three keys: the key at 1 is left, and
\* OriginalIndex(0) was asked and is 1
C17_Witness ==
    /\ dpc = "dropped" /\ dres.method = "DropKeys" /\ ~dres.panicked
    /\ Len(dkeys) = 3 /\ marks = <<2, 0>>
    /\ dres.keys = <<DKey(1)>>
    /\ lookups = [asked |-> 0, got |-> 1]

\* C18: after any calls of MarkForRemoval the tracker is the strictly
\* ascending sequence of the indices marked so far, each once (so marking
\* an index again changes nothing).
C18_SortedWithoutDuplicates ==
    /\ StrictlyAscending(dat)
    /\ {dat[k] : k \in 1..Len(dat)} = Marked
    /\ Len(dat) = Cardinality(Marked)

\* 2, 0 and 2 again were marked: the tracker is 0, 2
C18_Witness ==
    /\ marks = <<2, 0, 2>>
    /\ dat = <<0, 2>>

\* C19 (as stated): with a marked index >= N every Drop* call on arrays of
\* length N panics, N = 0 included; DropKeysAndVals panics on arrays of
\* different lengths.
C19_OutOfBoundsAlwaysPanics ==
    dpc = "dropped" =>
      /\ (\E x \in Marked : x >= Len(dkeys)) => dres.panicked
      /\ (dres.method = "DropKeysAndVals" /\ Len(dkeys) # Len(dvals)) =>
           dres.panicked

(***************************************************************************)
(* FlakyErrors: a callback that fails datastore features at random.  The   *)
(* callback is shared by goroutines; every roll of the dice takes the      *)
(* lock of the diceRoller, draws one value from Rand and releases it.      *)
(* Probabilities and the values of Rand are counted in units of 1/Scale.   *)
(***************************************************************************)
\* float64(rnd)/(1<<63) and the probabilities, in twentieths
Scale == 20
\* params.DeadlineProbability = 0.05
DefaultDeadlineProbability == 1
\* params.ConcurrentTransactionProbability = 0.1
DefaultConcurrentTransactionProbability == 2

\* the goroutines that call the callback
Goroutines == {1, 2}
\* the values Rand.Int63 hands out: one below every threshold, one between
\* the two defaults, one in the middle and the largest
Int63Values == {0, 1, Scale \div 4, Scale - 1}
\* the probabilities a caller sets: 0 (not set) or one half
GivenProbabilities == {0, Scale \div 2}

ErrFlakyRPCDeadline == [kind |-> "ErrFlakyRPCDeadline", at |-> 0, errs |-> <<>>]

\* the features of the switch statement
RPCFeatures ==
    {"AllocateIDs", "Run", "Count", "BeginTransaction", "CommitTransaction",
     "DeleteMulti", "GetMulti", "PutMulti"}
\* datastore features the switch does not list
OtherFeatures == {"RunInTransaction", "DecodeCursor"}
Features == RPCFeatures \cup OtherFeatures

\* if params.X == 0 { params.X = default }
OrDefault(given, default) == IF given = 0 THEN default ELSE given

RollsDeadlineAlways(feature) == TRUE
\* the case list of the switch
RollsDeadline(feature) == feature \in RPCFeatures
\* feature == "CommitTransaction" && ...
RollsConflict(feature) == feature = "CommitTransaction"
\* return float64(rnd)/(1<<63) < prob
Fires(rnd, prob) == rnd < prob

IdleProc == [pc |-> "idle", feature |-> "", draws |-> <<>>, ret |-> Nil]

InitFlaky ==
    /\ cbRet = Nil /\ estore = NoStore /\ etxns = <<>> /\ gsp = NoGsp
    /\ lst = NoLst /\ lprocs = <<>> /\ lhist = NoHist /\ crw = NoCrw
    /\ both = NoBoth
    /\ bf = [batchingSpecified |-> FALSE, batchingEnabled |-> FALSE,
             maxPutSize |-> 0, queryBatchSize |-> Int64(0, 0),
             hasCallback |-> FALSE]
    /\ op = "none" /\ keys = <<>> /\ vals = <<>> /\ mpc = "idle" /\ i = 0
    /\ groups = <<>> /\ received = <<>> /\ errs = <<>> /\ ret = Nil
    /\ store = 0 /\ fq = NoQuery /\ rpc = "idle" /\ direct = FALSE
    /\ cursor = NoCursor /\ limit = 0 /\ rcount = 0 /\ inner = NoInner
    /\ runCalls = <<>> /\ delivered = <<>> /\ events = <<>> /\ rret = Nil
    /\ page = NoPage
    /\ installed = FALSE /\ tpc = "idle" /\ attempt = 0 /\ cbs = <<>>
    /\ noTxnCtx = NoCtx /\ terr = Nil /\ execK = 0 /\ executed = <<>>
    /\ defers = <<>>
    /\ dat = <<>> /\ marks = <<>> /\ dkeys = <<>> /\ dvals = <<>> /\ dpc = "idle"
    /\ dres = NoDrop /\ lookups = NoLookup
    /\ \E d \in GivenProbabilities, c \in GivenProbabilities :
         params = [deadline |-> OrDefault(d, DefaultDeadlineProbability),
                   conflict |-> OrDefault(c, DefaultConcurrentTransactionProbability)]
    /\ procs = [g \in Goroutines |-> IdleProc]
    /\ lock = 0
    /\ taken = 0

\* goroutine g calls the callback for a feature: it goes for the deadline
\* roll, or for none of the two rolls and returns nil
Call(g) ==
    /\ procs[g].pc = "idle"
    /\ \E feature \in Features :
         procs' = [procs EXCEPT ![g].feature = feature,
                     ![g].pc = IF RollsDeadline(feature) THEN "lockDeadline"
                               ELSE IF RollsConflict(feature) THEN "lockConflict"
                               ELSE "done"]
    /\ UNCHANGED <<params, lock, taken>>
    /\ UNCHANGED <<batcherVars, txnVars, datVars, moreVars>>

LockNeverWaits(holder) == TRUE
\* sync.Mutex.Lock returns when no goroutine holds the mutex
LockReturns(holder) == holder = 0

\* roll: r.l.Lock()
Lock(g) ==
    /\ procs[g].pc \in {"lockDeadline", "lockConflict"}
    /\ LockReturns(lock)
    /\ lock' = g
    /\ procs' = [procs EXCEPT ![g].pc = IF @ = "lockDeadline" THEN "int63Deadline"
                                        ELSE "int63Conflict"]
    /\ UNCHANGED <<params, taken>>
    /\ UNCHANGED <<batcherVars, txnVars, datVars, moreVars>>

\* roll: rnd := r.p.Rand.Int63(), the next value of the stream
Int63(g) ==
    /\ procs[g].pc \in {"int63Deadline", "int63Conflict"}
    /\ taken' = taken + 1
    /\ \E rnd \in Int63Values :
         procs' = [procs EXCEPT
                     ![g].draws = Append(@, [pos |-> taken + 1, val |-> rnd]),
                     ![g].pc = IF @ = "int63Deadline" THEN "unlockDeadline"
                               ELSE "unlockConflict"]
    /\ UNCHANGED <<params, lock>>
    /\ UNCHANGED <<batcherVars, txnVars, datVars, moreVars>>

\* roll: r.l.Unlock() and the comparison; the callback returns the error
\* of the roll that fired, goes on to the conflict roll, or returns nil
Unlock(g) ==
    /\ procs[g].pc \in {"unlockDeadline", "unlockConflict"}
    /\ lock' = 0
    /\ LET rnd == procs[g].draws[Len(procs[g].draws)].val
       IN  IF procs[g].pc = "unlockDeadline"
             THEN IF Fires(rnd, params.deadline)
                    THEN procs' = [procs EXCEPT ![g].pc = "done",
                                                ![g].ret = ErrFlakyRPCDeadline]
                    ELSE IF RollsConflict(procs[g].feature)
                      THEN procs' = [procs EXCEPT ![g].pc = "lockConflict"]
                      ELSE procs' = [procs EXCEPT ![g].pc = "done"]
             ELSE IF Fires(rnd, params.conflict)
                    THEN procs' = [procs EXCEPT ![g].pc = "done",
                                                ![g].ret = ErrConcurrentTransaction]
                    ELSE procs' = [procs EXCEPT ![g].pc = "done"]
    /\ UNCHANGED <<params, taken>>
    /\ UNCHANGED <<batcherVars, txnVars, datVars, moreVars>>

NextFlaky ==
    \/ \E g \in Goroutines : Call(g)
    \/ \E g \in Goroutines : Lock(g)
    \/ \E g \in Goroutines : Int63(g)
    \/ \E g \in Goroutines : Unlock(g)

SpecFlaky == InitFlaky /\ [][NextFlaky]_vars

(***************************************************************************)
(* Properties of FlakyErrors.                                              *)
(***************************************************************************)
\* the features the deadline error is claimed for
RPCShaped ==
    {"AllocateIDs", "Run", "Count", "BeginTransaction", "CommitTransaction",
     "DeleteMulti", "GetMulti", "PutMulti"}
Returned(g) == procs[g].pc = "done"

\* C20: the deadline error comes only for the RPC-shaped features, the
\* conflict only for CommitTransaction, every other feature gets nil and
\* draws nothing; every RPC-shaped feature rolls for the deadline first, and
\* CommitTransaction rolls for the conflict only when the deadline did not
\* fire: at most two values drawn and one error returned per call.
C20_WhichFeaturesFail ==
    \A g \in Goroutines :
      /\ Len(procs[g].draws) <= 2
      /\ Returned(g) =>
           LET f == procs[g].feature
               r == procs[g].ret
               n == Len(procs[g].draws)
           IN  /\ r \in {Nil, ErrFlakyRPCDeadline, ErrConcurrentTransaction}
               /\ r = ErrFlakyRPCDeadline => f \in RPCShaped
               /\ r = ErrConcurrentTransaction => f = "CommitTransaction"
               /\ f \notin RPCShaped => r = Nil /\ n = 0
               /\ f \in RPCShaped =>
                    /\ n >= 1
                    /\ r = ErrFlakyRPCDeadline <=>
                         Fires(procs[g].draws[1].val, params.deadline)
                    /\ r = ErrFlakyRPCDeadline => n = 1
               /\ (f \in RPCShaped /\ f # "CommitTransaction") => n = 1
               /\ (f = "CommitTransaction" /\ r # ErrFlakyRPCDeadline) =>
                    /\ n = 2
                    /\ r = ErrConcurrentTransaction <=>
                         Fires(procs[g].draws[2].val, params.conflict)

\* a CommitTransaction call whose deadline roll did not fire and whose
\* conflict roll did, and a RunInTransaction call that drew nothing
C20_Witness ==
    \E g, h \in Goroutines :
      /\ Returned(g) /\ procs[g].feature = "CommitTransaction"
      /\ Len(procs[g].draws) = 2 /\ procs[g].ret = ErrConcurrentTransaction
      /\ Returned(h) /\ procs[h].feature = "RunInTransaction"
      /\ procs[h].draws = <<>> /\ procs[h].ret = Nil

\* goroutine g is between r.l.Lock() and r.l.Unlock(): in or just out of
\* Rand.Int63
InRoll(g) ==
    procs[g].pc \in {"int63Deadline", "int63Conflict", "unlockDeadline",
                     "unlockConflict"}
\* the positions of the random stream the rolls of goroutine g got
PositionsOf(g) == {procs[g].draws[k].pos : k \in 1..Len(procs[g].draws)}

\* C21: no two goroutines are between Lock and Unlock of the diceRoller at
\* the same time, the one that is holds the lock, and the values handed
\* out so far (positions 1..taken of the stream) went one each to the
\* rolls: no position twice, in one goroutine or in two, and none missing.
C21_OneRollAtATime ==
    /\ \A g, h \in Goroutines : (InRoll(g) /\ InRoll(h)) => g = h
    /\ \A g \in Goroutines : InRoll(g) <=> lock = g
    /\ \A g \in Goroutines :
         Cardinality(PositionsOf(g)) = Len(procs[g].draws)
    /\ \A g, h \in Goroutines : g # h => PositionsOf(g) \cap PositionsOf(h) = {}
    /\ UNION {PositionsOf(g) : g \in Goroutines} = 1..taken

\* one goroutine is inside its roll while the other waits for the lock,
\* and values were drawn by both before
C21_Witness ==
    \E g, h \in Goroutines :
      /\ procs[g].pc = "int63Conflict" /\ lock = g
      /\ procs[h].pc = "lockConflict"
      /\ Len(procs[g].draws) = 1 /\ Len(procs[h].draws) = 1
      /\ taken = 2

(***************************************************************************)
(* Run: the caller's callback stops the iteration.                         *)
(***************************************************************************)
\* the caller's callback has returned Stop or an error to the intermediate
\* callback of a batched Run
CbStopped == ~direct /\ cbRet \in {Stop, CbErr(0)}

\* C26: once the caller's callback returns Stop or an error at a record of
\* a batched Run, that record is the last thing that happens: no later
\* record is delivered, no sub-query is issued and no batch callback runs
\* after it, the record is not counted and no cursor is taken for its
\* sub-batch (also when it is the last record of a full sub-batch), and Run
\* returns the error unchanged, or nil for Stop.
C26_CallbackStopEndsRun ==
    CbStopped =>
      /\ rpc \in {"afterInner", "done"}
      /\ events[Len(events)] = "D"
      /\ delivered[Len(delivered)] = RecVal(inner.pos)
      /\ ~cursor.set
      /\ rcount < bs
      /\ inner.err = cbRet
      /\ rpc = "done" => rret = filterStop(cbRet)

\* the callback fails on the last record of the second, full sub-batch
C26_Witness ==
    /\ ~direct /\ cbRet = CbErr(0) /\ rpc = "done" /\ rret = CbErr(0)
    /\ bs = 2 /\ rcount + 1 = bs /\ Len(runCalls) = 2 /\ Len(delivered) = 4
    /\ bf.hasCallback

(***************************************************************************)
(* Run of a query with an offset.                                          *)
(***************************************************************************)
\* largest offset of a query
MaxOffset == 2

\* as InitRun, for a query that skips its first offset records
InitRunOffset ==
    /\ cbRet = Nil /\ estore = NoStore /\ etxns = <<>> /\ gsp = NoGsp
    /\ lst = NoLst /\ lprocs = <<>> /\ lhist = NoHist /\ crw = NoCrw
    /\ both = NoBoth
    /\ \E ctxSize \in {Int64(0, 0), Int64(0, 2)}, constraintsSize \in BatchSizes :
         bf \in [batchingSpecified : BOOLEAN, batchingEnabled : BOOLEAN,
                 maxPutSize : {0},
                 queryBatchSize : {applyBatchFilter(ctxSize, constraintsSize)},
                 hasCallback : BOOLEAN]
    /\ op = "none" /\ keys = <<>> /\ vals = <<>> /\ mpc = "idle" /\ i = 0
    /\ groups = <<>> /\ received = <<>> /\ errs = <<>> /\ ret = Nil
    /\ store \in 0..MaxRecords
    /\ \E s \in 0..store, hl \in BOOLEAN, o \in 1..MaxOffset :
         \E l \in (IF hl THEN 0..(MaxRecords + 1) ELSE {0}) :
           /\ fq = [start |-> IF s = 0 THEN NoCursor ELSE CursorAt(s),
                    hasLimit |-> hl, limit |-> l, project |-> FALSE,
                    offset |-> o]
           /\ page = [round |-> 1, saved |-> NoCursor, got |-> 0, from |-> s]
    /\ rpc = "start"
    /\ direct = FALSE
    /\ cursor = NoCursor
    /\ limit = 0
    /\ rcount = 0
    /\ inner = NoInner
    /\ runCalls = <<>>
    /\ delivered = <<>>
    /\ events = <<>>
    /\ rret = Nil
    /\ installed = FALSE /\ tpc = "idle" /\ attempt = 0 /\ cbs = <<>>
    /\ noTxnCtx = NoCtx /\ terr = Nil /\ execK = 0 /\ executed = <<>>
    /\ defers = <<>>
    /\ dat = <<>> /\ marks = <<>> /\ dkeys = <<>> /\ dvals = <<>> /\ dpc = "idle"
    /\ dres = NoDrop /\ lookups = NoLookup
    /\ params = NoParams /\ procs = <<>> /\ lock = 0 /\ taken = 0

SpecRunOffset == InitRunOffset /\ [][NextRun]_vars

\* C27: a batched Run of a query with a non-zero offset that took more than
\* one sub-query delivers what the unbatched run delivers: the records
\* after the first offset ones, each once, the offset applied once.
C27_OffsetAppliedOnce ==
    (Clean /\ BatchingOn /\ SizeValid /\ page.round = 1
       /\ fq.offset > 0 /\ Len(runCalls) > 1)
      => delivered = Unbatched(fq)

(***************************************************************************)
(* The caller's callback and the concurrently running groups.              *)
(***************************************************************************)
\* the groups whose inner operation is inside the caller's callback
InCb == {g \in 1..Len(groups) : groups[g].st = "inCb"}
\* the original indices (1-based) the callback was called with for group g
ServedBy(g) ==
    {j \in 1..count : \E k \in 1..Len(received[j]) : received[j][k].group = g}

\* C28 as claimed: the caller's callback is never executing in two groups
\* at the same time.
C28_CallbackInOneGroupAtATime == Cardinality(InCb) <= 1

\* C28, amended: the invocations of the callback made for one group are
\* made one at a time, in the order of the group's elements, and the
\* invocations made for different groups concern different original
\* indices; invocations for different running groups are not serialized.
C28_GroupsCallBackOnDisjointIndices ==
    /\ \A g, h \in 1..Len(groups) :
         g # h => ServedBy(g) \cap ServedBy(h) = {}
    /\ \A g \in 1..Len(groups) :
         LET n == Cardinality(ServedBy(g)) IN
           /\ ServedBy(g) = {groups[g].offset + k : k \in 1..n}
           /\ n <= groups[g].size
           /\ n \in {groups[g].idx, groups[g].idx + 1}
           /\ groups[g].st = "inCb" => n = groups[g].idx + 1
           /\ groups[g].st = "running" => n = groups[g].idx

\* the callback is executing in two groups at once, for indices 0 and 2
C28_Witness ==
    /\ mpc = "fanout" /\ Cardinality(InCb) = 2
    /\ groups[1].st = "inCb" /\ groups[2].st = "inCb"
    /\ groups[1].idx = 0 /\ groups[2].idx = 0
    /\ ServedBy(1) = {1} /\ ServedBy(2) = {3}

(***************************************************************************)
(* The deferred callbacks and the lock of the txnState.                    *)
(***************************************************************************)
\* C29: RunInTransaction through the filter returns after a successful
\* commit when every deferred callback returns, also when a callback calls
\* Defer with the transactional context it captured from the body:
\* execCBs is never stuck on the lock of the txnState.
C29_ExecCBsNeverBlocks ==
    /\ tpc # "blocked"
    /\ \A k \in 1..Len(defers) :
         (defers[k].during = "exec" /\ defers[k].ctx.state)
           => defers[k].outcome = "registered"

(***************************************************************************)
(* The two implementations of DroppedArgTracker side by side: the one of   *)
(* service/datastore/dropped_arg_tracker.go appends on MarkForRemoval and  *)
(* sorts when it is used, the other one keeps the slice sorted and without *)
(* duplicates on MarkForRemoval.  Both get the same calls.                 *)
(***************************************************************************)
\* s with x inserted before the first larger element
RECURSIVE InsertInOrder(_, _)
InsertInOrder(s, x) ==
    IF s = <<>> THEN <<x>>
    ELSE IF x < s[1] THEN <<x>> \o s
    ELSE <<s[1]>> \o InsertInOrder(Tail(s), x)
\* sort.Ints(dat): the same elements, each as often as before, ascending
RECURSIVE SortInts(_)
SortInts(s) == IF s = <<>> THEN <<>> ELSE InsertInOrder(SortInts(Tail(s)), s[1])

\* *dat = append(*dat, originalIndex)
MarkForRemovalAppend(d, originalIndex) == Append(d, originalIndex)

\* mustCompress of the appending tracker: nothing to do, or sort.Ints(dat)
\* and then the bounds check and the loop over the sorted slice
mustCompressSorting(d, N) ==
    IF NothingToDo(d, N)
      THEN [panicked |-> FALSE, init |-> FALSE, ranges |-> <<>>]
      ELSE LET sd == SortInts(d) IN
           IF sd[Len(sd)] >= N
             THEN [panicked |-> TRUE, init |-> FALSE, ranges |-> <<>>]
             ELSE [panicked |-> FALSE, init |-> TRUE,
                   ranges |-> Ranges(sd, 1, 0, N)]
\* the tracker after mustCompress: sorted, unless there was nothing to do
AfterMustCompress(d, N) == IF NothingToDo(d, N) THEN d ELSE SortInts(d)

\* OriginalIndex of the appending tracker: sort.Ints(dat), then one step up
\* for every entry of the slice not above the running index
OriginalIndexSorting(d, reducedIndex) ==
    OriginalIndexFrom(SortInts(d), 1, reducedIndex)

InitDatBoth ==
    /\ bf = [batchingSpecified |-> FALSE, batchingEnabled |-> FALSE,
             maxPutSize |-> 0, queryBatchSize |-> Int64(0, 0),
             hasCallback |-> FALSE]
    /\ op = "none" /\ keys = <<>> /\ vals = <<>> /\ mpc = "idle" /\ i = 0
    /\ groups = <<>> /\ received = <<>> /\ errs = <<>> /\ ret = Nil
    /\ store = 0 /\ fq = NoQuery /\ rpc = "idle" /\ direct = FALSE
    /\ cursor = NoCursor /\ limit = 0 /\ rcount = 0 /\ inner = NoInner
    /\ runCalls = <<>> /\ delivered = <<>> /\ events = <<>> /\ rret = Nil
    /\ page = NoPage /\ cbRet = Nil
    /\ installed = FALSE /\ tpc = "idle" /\ attempt = 0 /\ cbs = <<>>
    /\ noTxnCtx = NoCtx /\ terr = Nil /\ execK = 0 /\ executed = <<>>
    /\ defers = <<>>
    /\ dat = <<>> /\ marks = <<>> /\ dkeys = <<>> /\ dvals = <<>> /\ dpc = "idle"
    /\ dres = NoDrop /\ lookups = NoLookup
    /\ params = NoParams /\ procs = <<>> /\ lock = 0 /\ taken = 0
    /\ estore = NoStore /\ etxns = <<>>
    /\ gsp = NoGsp
    /\ lst = NoLst /\ lprocs = <<>> /\ lhist = NoHist
    /\ crw = NoCrw
    /\ \E n \in 0..MaxN :
         both = [pc |-> "mark", N |-> n, old |-> <<>>, new |-> <<>>,
                 keysOld |-> <<>>, keysNew |-> <<>>, asked |-> -1,
                 gotOld |-> -1, gotNew |-> -1]

\* the input of N keys
BothKeys == [j \in 1..both.N |-> DKey(j - 1)]

\* MarkForRemoval of an index < N on both trackers
MarkBoth ==
    /\ both.pc = "mark"
    /\ Len(both.old) < MaxMarks
    /\ \E originalIndex \in 0..(both.N - 1) :
         both' = [both EXCEPT
                    !.old = MarkForRemovalAppend(@, originalIndex),
                    !.new = MarkForRemoval(@, originalIndex)]
    /\ UNCHANGED <<oldVars, engineVars, certVars, lstVars, crwVars>>

\* DropKeys(keys) on both trackers
DropKeysBoth ==
    /\ both.pc = "mark"
    /\ LET mcOld == mustCompressSorting(both.old, both.N)
           mcNew == mustCompress(both.new, both.N)
       IN  both' = [both EXCEPT
                      !.pc = "dropped",
                      !.old = AfterMustCompress(@, both.N),
                      !.keysOld = Compressed(BothKeys, mcOld),
                      !.keysNew = Compressed(BothKeys, mcNew)]
    /\ UNCHANGED <<oldVars, engineVars, certVars, lstVars, crwVars>>

\* OriginalIndex(reducedIndex) on both trackers
OriginalIndexBoth ==
    /\ both.pc = "dropped"
    /\ \E reducedIndex \in 0..MaxN :
         both' = [both EXCEPT
                    !.asked = reducedIndex,
                    !.old = SortInts(@),
                    !.gotOld = OriginalIndexSorting(both.old, reducedIndex),
                    !.gotNew = OriginalIndex(both.new, reducedIndex)]
    /\ UNCHANGED <<oldVars, engineVars, certVars, lstVars, crwVars>>

NextDatBoth ==
    \/ MarkBoth
    \/ DropKeysBoth
    \/ OriginalIndexBoth

SpecDatBoth == InitDatBoth /\ [][NextDatBoth]_vars

\* C30: the two implementations return the same DropKeys result and the
\* same OriginalIndex(i) for every i, for every N and every sequence of
\* marked indices < N, the same index marked more than once included.
C30_SameResults ==
    /\ both.pc = "dropped" => both.keysOld = both.keysNew
    /\ both.asked # -1 => both.gotOld = both.gotNew

(***************************************************************************)
(* LogSeverityTracker (impl/cloud/log_severity_tracker.go): goroutines     *)
(* call Observe and HighestSeverity on one tracker.  A call takes the      *)
(* lock, runs its body, and releases the lock as it returns (defer).       *)
(***************************************************************************)
\* how many calls the goroutines make together
MaxCalls == 4

\* logging.Default, the lowest severity
Default == 0
\* the severities of the model: logging.Default, logging.Info, logging.Error
Severities == {Default, 200, 500}
\* the goroutines that use the tracker
Callers == {1, 2, 3}

IdleCaller == [pc |-> "idle", method |-> "", s |-> Default, val |-> Default]

InitLst ==
    /\ bf = [batchingSpecified |-> FALSE, batchingEnabled |-> FALSE,
             maxPutSize |-> 0, queryBatchSize |-> Int64(0, 0),
             hasCallback |-> FALSE]
    /\ op = "none" /\ keys = <<>> /\ vals = <<>> /\ mpc = "idle" /\ i = 0
    /\ groups = <<>> /\ received = <<>> /\ errs = <<>> /\ ret = Nil
    /\ store = 0 /\ fq = NoQuery /\ rpc = "idle" /\ direct = FALSE
    /\ cursor = NoCursor /\ limit = 0 /\ rcount = 0 /\ inner = NoInner
    /\ runCalls = <<>> /\ delivered = <<>> /\ events = <<>> /\ rret = Nil
    /\ page = NoPage /\ cbRet = Nil
    /\ installed = FALSE /\ tpc = "idle" /\ attempt = 0 /\ cbs = <<>>
    /\ noTxnCtx = NoCtx /\ terr = Nil /\ execK = 0 /\ executed = <<>>
    /\ defers = <<>>
    /\ dat = <<>> /\ marks = <<>> /\ dkeys = <<>> /\ dvals = <<>> /\ dpc = "idle"
    /\ dres = NoDrop /\ lookups = NoLookup
    /\ params = NoParams /\ procs = <<>> /\ lock = 0 /\ taken = 0
    /\ estore = NoStore /\ etxns = <<>>
    /\ gsp = NoGsp
    /\ crw = NoCrw
    /\ both = NoBoth
    /\ lst = [observed |-> FALSE, highestSeverity |-> 0, lock |-> 0]
    /\ lprocs = [g \in Callers |-> IdleCaller]
    /\ lhist = [completed |-> {}, returned |-> <<>>, calls |-> 0]

\* goroutine g calls Observe(s) or HighestSeverity()
LstCall(g) ==
    /\ lprocs[g].pc = "idle"
    /\ lhist.calls < MaxCalls
    /\ \E m \in {"Observe", "HighestSeverity"} :
         \E s \in (IF m = "Observe" THEN Severities ELSE {Default}) :
           lprocs' = [lprocs EXCEPT ![g] = [pc |-> "lock", method |-> m,
                                            s |-> s, val |-> Default]]
    /\ lhist' = [lhist EXCEPT !.calls = @ + 1]
    /\ UNCHANGED lst
    /\ UNCHANGED <<oldVars, engineVars, certVars, crwVars, bothVars>>

\* lst.lock.Lock() returns when nobody holds the lock
LstLock(g) ==
    /\ lprocs[g].pc = "lock"
    /\ lst.lock = 0
    /\ lst' = [lst EXCEPT !.lock = g]
    /\ lprocs' = [lprocs EXCEPT ![g].pc = "body"]
    /\ UNCHANGED lhist
    /\ UNCHANGED <<oldVars, engineVars, certVars, crwVars, bothVars>>

ShouldRecordAlways(observed, s, highest) == TRUE
\* !lst.observed || s > lst.highestSeverity
ShouldRecord(observed, s, highest) == ~observed \/ s > highest

\* the body of Observe
Observe(g) ==
    /\ lprocs[g].pc = "body"
    /\ lprocs[g].method = "Observe"
    /\ lst' = IF ShouldRecord(lst.observed, lprocs[g].s, lst.highestSeverity)
                THEN [lst EXCEPT !.highestSeverity = lprocs[g].s,
                                 !.observed = TRUE]
                ELSE lst
    /\ lprocs' = [lprocs EXCEPT ![g].pc = "unlock"]
    /\ UNCHANGED lhist
    /\ UNCHANGED <<oldVars, engineVars, certVars, crwVars, bothVars>>

\* the body of HighestSeverity: the value it is going to return
HighestSeverity(g) ==
    /\ lprocs[g].pc = "body"
    /\ lprocs[g].method = "HighestSeverity"
    /\ lprocs' = [lprocs EXCEPT
                    ![g].pc = "unlock",
                    ![g].val = IF ~lst.observed THEN Default
                               ELSE lst.highestSeverity]
    /\ UNCHANGED <<lst, lhist>>
    /\ UNCHANGED <<oldVars, engineVars, certVars, crwVars, bothVars>>

\* the deferred lst.lock.Unlock(), and the call returns
LstUnlock(g) ==
    /\ lprocs[g].pc = "unlock"
    /\ lst' = [lst EXCEPT !.lock = 0]
    /\ lhist' = IF lprocs[g].method = "Observe"
                  THEN [lhist EXCEPT !.completed = @ \cup {lprocs[g].s}]
                  ELSE [lhist EXCEPT !.returned = Append(@, lprocs[g].val)]
    /\ lprocs' = [lprocs EXCEPT ![g] = IdleCaller]
    /\ UNCHANGED <<oldVars, engineVars, certVars, crwVars, bothVars>>

NextLst ==
    \/ \E g \in Callers : LstCall(g)
    \/ \E g \in Callers : LstLock(g)
    \/ \E g \in Callers : Observe(g)
    \/ \E g \in Callers : HighestSeverity(g)
    \/ \E g \in Callers : LstUnlock(g)

SpecLst == InitLst /\ [][NextLst]_vars

\* the largest element of a non-empty set of severities
MaxOf(S) == CHOOSE x \in S : \A y \in S : y <= x

\* C24: in every interleaving, the value HighestSeverity is about to return
\* is Default when no Observe has completed and else the largest severity
\* of the completed Observe calls, and the values returned, in the order of
\* the returns, never decrease.
C24_ReturnsMaxOfCompleted ==
    /\ \A g \in Callers :
         (lprocs[g].pc = "unlock" /\ lprocs[g].method = "HighestSeverity") =>
           lprocs[g].val = IF lhist.completed = {} THEN Default
                           ELSE MaxOf(lhist.completed)
    /\ \A k \in 1..(Len(lhist.returned) - 1) :
         lhist.returned[k] <= lhist.returned[k + 1]
    /\ \A k \in 1..Len(lhist.returned) :
         lhist.returned[k] \in lhist.completed \cup {Default}

\* Error and Info were observed; a HighestSeverity call is about to return
\* Error while another goroutine waits for the lock
C24_Witness ==
    \E g, h \in Callers :
      /\ lprocs[g].pc = "unlock" /\ lprocs[g].method = "HighestSeverity"
      /\ lprocs[g].val = 500
      /\ lprocs[h].pc = "lock"
      /\ lhist.completed = {200, 500} /\ lst.highestSeverity = 500

(***************************************************************************)
(* capturingResponseWriter (impl/cloud/request.go).  The sources hold      *)
(* three versions of maybeRecordStatus; the model runs each of them.       *)
(***************************************************************************)
\* how many calls of Write and WriteHeader a handler makes at most
MaxWrites == 3
\* longest slice given to Write
MaxLen == 2

\* http.StatusOK
StatusOK == 200
\* the statuses a handler sets: 200, 404, 500
Statuses == {StatusOK, 404, 500}
\* the versions: the one that tests and sets HasStatus, the one that tests
\* Status != 0, and the one that tests HasStatus and never sets it
Versions == {"part_008:171", "request.go:64", "request.go:249"}

\* maybeRecordStatus(s)
maybeRecordStatus(c, s) ==
    IF c.impl = "part_008:171"
      THEN IF ~c.HasStatus THEN [c EXCEPT !.Status = s, !.HasStatus = TRUE]
                           ELSE c
    ELSE IF c.impl = "request.go:64"
      THEN IF c.Status # 0 THEN [c EXCEPT !.Status = s] ELSE c
    ELSE IF ~c.HasStatus THEN [c EXCEPT !.Status = s] ELSE c

\* crw := capturingResponseWriter{Inner: rw}
InitCrw ==
    /\ bf = [batchingSpecified |-> FALSE, batchingEnabled |-> FALSE,
             maxPutSize |-> 0, queryBatchSize |-> Int64(0, 0),
             hasCallback |-> FALSE]
    /\ op = "none" /\ keys = <<>> /\ vals = <<>> /\ mpc = "idle" /\ i = 0
    /\ groups = <<>> /\ received = <<>> /\ errs = <<>> /\ ret = Nil
    /\ store = 0 /\ fq = NoQuery /\ rpc = "idle" /\ direct = FALSE
    /\ cursor = NoCursor /\ limit = 0 /\ rcount = 0 /\ inner = NoInner
    /\ runCalls = <<>> /\ delivered = <<>> /\ events = <<>> /\ rret = Nil
    /\ page = NoPage /\ cbRet = Nil
    /\ installed = FALSE /\ tpc = "idle" /\ attempt = 0 /\ cbs = <<>>
    /\ noTxnCtx = NoCtx /\ terr = Nil /\ execK = 0 /\ executed = <<>>
    /\ defers = <<>>
    /\ dat = <<>> /\ marks = <<>> /\ dkeys = <<>> /\ dvals = <<>> /\ dpc = "idle"
    /\ dres = NoDrop /\ lookups = NoLookup
    /\ params = NoParams /\ procs = <<>> /\ lock = 0 /\ taken = 0
    /\ estore = NoStore /\ etxns = <<>>
    /\ gsp = NoGsp
    /\ lst = NoLst /\ lprocs = <<>> /\ lhist = NoHist
    /\ both = NoBoth
    /\ \E v \in Versions :
         crw = [impl |-> v, Bytes |-> 0, HasStatus |-> FALSE, Status |-> 0,
                inner |-> <<>>, calls |-> <<>>]

\* Write(p): the status is recorded as 200 when none is, the inner writer
\* writes amt of the len(p) bytes, and Bytes grows by amt
Write ==
    /\ Len(crw.calls) < MaxWrites
    /\ \E n \in 0..MaxLen : \E amt \in 0..n :
         crw' = [maybeRecordStatus(crw, StatusOK) EXCEPT
                   !.inner = Append(@, amt),
                   !.Bytes = @ + amt,
                   !.calls = Append(@, [op |-> "Write", arg |-> n])]
    /\ UNCHANGED <<oldVars, engineVars, certVars, lstVars, bothVars>>

\* WriteHeader(status)
WriteHeader ==
    /\ Len(crw.calls) < MaxWrites
    /\ \E status \in Statuses :
         crw' = [maybeRecordStatus(crw, status) EXCEPT
                   !.calls = Append(@, [op |-> "WriteHeader", arg |-> status])]
    /\ UNCHANGED <<oldVars, engineVars, certVars, lstVars, bothVars>>

NextCrw ==
    \/ Write
    \/ WriteHeader

SpecCrw == InitCrw /\ [][NextCrw]_vars

\* the status the first call set
FirstStatus ==
    IF crw.calls[1].op = "WriteHeader" THEN crw.calls[1].arg ELSE StatusOK
RECURSIVE SumOf(_)
SumOf(s) == IF s = <<>> THEN 0 ELSE s[1] + SumOf(Tail(s))

\* C25: the recorded Status is the first status that was set, s after a
\* first WriteHeader(s) and 200 after a first Write, whatever calls follow,
\* and Bytes is the sum of the byte counts the inner writer returned.
C25_KeepsFirstStatus ==
    /\ crw.calls # <<>> => crw.Status = FirstStatus
    /\ crw.Bytes = SumOf(crw.inner)

(***************************************************************************)
(* GoogleServiceProvider.PublicCertificates (impl/cloud).  The sources     *)
(* hold two versions: one locks a mutex and uses Get and Put of the        *)
(* ProcessCache, the other uses GetOrCreate of an LRU cache.  A call is    *)
(* one step: it runs under the mutex of the key or inside GetOrCreate.     *)
(***************************************************************************)
\* how many times PublicCertificates is called at most
MaxCertCalls == 3

\* what the request to the certificate endpoint does: it succeeds, it
\* cannot be sent, it is answered with another status than 200, or its
\* body cannot be decoded
LoadOutcomes == {"ok", "send", "status", "decode"}
\* the error of http.Get and the error of the JSON decoder
ErrSend == [kind |-> "send", at |-> 0, errs |-> <<>>]
ErrDecode == [kind |-> "decode", at |-> 0, errs |-> <<>>]
\* errors.Annotate(err, ...).Err(): the error with a reason around it, and
\* nil for a nil error
Annotate(err) ==
    IF err = Nil THEN Nil ELSE [kind |-> "annotated", at |-> 0, errs |-> <<err>>]

\* loadPublicCertificates, and the maker function given to GetOrCreate: on
\* a status other than 200 the error annotated is the nil error of http.Get
loadPublicCertificates(outcome) ==
    IF outcome = "send" THEN [certs |-> "nil", err |-> Annotate(ErrSend)]
    ELSE IF outcome = "status" THEN [certs |-> "nil", err |-> Annotate(Nil)]
    ELSE IF outcome = "decode" THEN [certs |-> "nil", err |-> Annotate(ErrDecode)]
    ELSE [certs |-> "certs", err |-> Nil]

\* the version with the mutex: a cached value is returned; else the load's
\* result is put into the cache unless the load returned an error; the
\* function ends with `return certs, nil`
PublicCertificatesMutex(cache, outcome) ==
    IF cache # "empty"
      THEN [loaded |-> FALSE, outcome |-> "", certs |-> cache, err |-> Nil,
            panicked |-> FALSE, cache |-> cache]
      ELSE LET l == loadPublicCertificates(outcome) IN
           [loaded |-> TRUE, outcome |-> outcome, certs |-> l.certs,
            err |-> Nil, panicked |-> FALSE,
            cache |-> IF l.err # Nil THEN cache ELSE l.certs]

\* the version with GetOrCreate: GetOrCreate returns the cached value, or
\* calls the maker and stores its value unless the maker returned an error;
\* the value is then asserted to be a slice of certificates, which panics
\* for the nil interface value
PublicCertificatesGetOrCreate(cache, outcome) ==
    IF cache # "empty"
      THEN [loaded |-> FALSE, outcome |-> "",
            certs |-> IF cache = "nil" THEN "none" ELSE cache, err |-> Nil,
            panicked |-> cache = "nil", cache |-> cache]
      ELSE LET l == loadPublicCertificates(outcome) IN
           IF l.err # Nil
             THEN [loaded |-> TRUE, outcome |-> outcome, certs |-> "nil",
                   err |-> l.err, panicked |-> FALSE, cache |-> cache]
             ELSE [loaded |-> TRUE, outcome |-> outcome,
                   certs |-> IF l.certs = "nil" THEN "none" ELSE l.certs,
                   err |-> Nil, panicked |-> l.certs = "nil",
                   cache |-> l.certs]

InitCerts ==
    /\ bf = [batchingSpecified |-> FALSE, batchingEnabled |-> FALSE,
             maxPutSize |-> 0, queryBatchSize |-> Int64(0, 0),
             hasCallback |-> FALSE]
    /\ op = "none" /\ keys = <<>> /\ vals = <<>> /\ mpc = "idle" /\ i = 0
    /\ groups = <<>> /\ received = <<>> /\ errs = <<>> /\ ret = Nil
    /\ store = 0 /\ fq = NoQuery /\ rpc = "idle" /\ direct = FALSE
    /\ cursor = NoCursor /\ limit = 0 /\ rcount = 0 /\ inner = NoInner
    /\ runCalls = <<>> /\ delivered = <<>> /\ events = <<>> /\ rret = Nil
    /\ page = NoPage /\ cbRet = Nil
    /\ installed = FALSE /\ tpc = "idle" /\ attempt = 0 /\ cbs = <<>>
    /\ noTxnCtx = NoCtx /\ terr = Nil /\ execK = 0 /\ executed = <<>>
    /\ defers = <<>>
    /\ dat = <<>> /\ marks = <<>> /\ dkeys = <<>> /\ dvals = <<>> /\ dpc = "idle"
    /\ dres = NoDrop /\ lookups = NoLookup
    /\ params = NoParams /\ procs = <<>> /\ lock = 0 /\ taken = 0
    /\ estore = NoStore /\ etxns = <<>>
    /\ lst = NoLst /\ lprocs = <<>> /\ lhist = NoHist
    /\ crw = NoCrw
    /\ both = NoBoth
    /\ \E v \in {"WithMutex", "GetOrCreate"} :
         gsp = [impl |-> v, cache |-> "empty", calls |-> <<>>]

\* gsp.PublicCertificates(c)
PublicCertificates ==
    /\ Len(gsp.calls) < MaxCertCalls
    /\ \E outcome \in LoadOutcomes :
         LET r == IF gsp.impl = "WithMutex"
                    THEN PublicCertificatesMutex(gsp.cache, outcome)
                    ELSE PublicCertificatesGetOrCreate(gsp.cache, outcome)
         IN  gsp' = [gsp EXCEPT !.cache = r.cache, !.calls = Append(@, r)]
    /\ UNCHANGED <<oldVars, engineVars, lstVars, crwVars, bothVars>>

\* the cached certificates expire, or the cache drops the entry
CacheExpires ==
    /\ gsp.cache # "empty"
    /\ gsp' = [gsp EXCEPT !.cache = "empty"]
    /\ UNCHANGED <<oldVars, engineVars, lstVars, crwVars, bothVars>>

NextCerts ==
    \/ PublicCertificates
    \/ CacheExpires

SpecCerts == InitCerts /\ [][NextCerts]_vars

\* C23: a call of PublicCertificates whose load fails returns a non-nil
\* error (never nil certificates with a nil error, and it does not panic)
\* and leaves the cache empty, so that the next call loads again.
C23_FailedLoadReturnsError ==
    \A k \in 1..Len(gsp.calls) :
      (gsp.calls[k].loaded /\ gsp.calls[k].outcome # "ok") =>
        /\ gsp.calls[k].err # Nil
        /\ ~gsp.calls[k].panicked
        /\ gsp.calls[k].cache = "empty"

(***************************************************************************)
(* Transactions of the in-memory engine: a versioned store, transactions   *)
(* that read a snapshot and collect their writes, and a commit that checks *)
(* the entity groups touched against the versions committed since.         *)
(***************************************************************************)
\* how many versions the store gets at most
MaxVersions == 3

\* the entities: 1 is a root, 2 a child of 1, 3 another root
EKeys == {1, 2, 3}
\* the entity group of a key: the top-most key of its ancestor chain
RootOf(k) == IF k = 2 THEN 1 ELSE k
Roots == {RootOf(k) : k \in EKeys}
\* the transactions, and the value transaction t writes to key k
Txns == {1, 2}
TxnVal(t, k) == 10 * t + k
\* the value a Put outside of transactions writes to key k
PlainVal(k) == 90 + k

IdleTxn == [pc |-> "idle", snapshot |-> 0, writes |-> {}, runs |-> 0,
            err |-> Nil]

InitEngine ==
    /\ bf = [batchingSpecified |-> FALSE, batchingEnabled |-> FALSE,
             maxPutSize |-> 0, queryBatchSize |-> Int64(0, 0),
             hasCallback |-> FALSE]
    /\ op = "none" /\ keys = <<>> /\ vals = <<>> /\ mpc = "idle" /\ i = 0
    /\ groups = <<>> /\ received = <<>> /\ errs = <<>> /\ ret = Nil
    /\ store = 0 /\ fq = NoQuery /\ rpc = "idle" /\ direct = FALSE
    /\ cursor = NoCursor /\ limit = 0 /\ rcount = 0 /\ inner = NoInner
    /\ runCalls = <<>> /\ delivered = <<>> /\ events = <<>> /\ rret = Nil
    /\ page = NoPage /\ cbRet = Nil
    /\ installed = FALSE /\ tpc = "idle" /\ attempt = 0 /\ cbs = <<>>
    /\ noTxnCtx = NoCtx /\ terr = Nil /\ execK = 0 /\ executed = <<>>
    /\ defers = <<>>
    /\ dat = <<>> /\ marks = <<>> /\ dkeys = <<>> /\ dvals = <<>> /\ dpc = "idle"
    /\ dres = NoDrop /\ lookups = NoLookup
    /\ params = NoParams /\ procs = <<>> /\ lock = 0 /\ taken = 0
    /\ gsp = NoGsp
    /\ lst = NoLst /\ lprocs = <<>> /\ lhist = NoHist
    /\ crw = NoCrw
    /\ both = NoBoth
    /\ estore = [version |-> 0, ents |-> [k \in EKeys |-> 0],
                 modified |-> [r \in Roots |-> 0]]
    /\ etxns = [t \in Txns |-> IdleTxn]

\* the store after writing val[k] to every key of ks: one new version, and
\* the entity groups of the keys are modified by it
Apply(st, ks, val) ==
    [version |-> st.version + 1,
     ents |-> [k \in EKeys |-> IF k \in ks THEN val[k] ELSE st.ents[k]],
     modified |-> [r \in Roots |->
                     IF \E k \in ks : RootOf(k) = r THEN st.version + 1
                     ELSE st.modified[r]]]

\* a Put outside of any transaction
PutDirect ==
    /\ estore.version < MaxVersions
    /\ \E k \in EKeys : estore' = Apply(estore, {k}, [j \in EKeys |-> PlainVal(j)])
    /\ UNCHANGED etxns
    /\ UNCHANGED <<oldVars, certVars, lstVars, crwVars, bothVars>>

\* RunInTransaction captures the current version as the snapshot and runs
\* the body
Begin(t) ==
    /\ etxns[t].pc = "idle"
    /\ etxns' = [etxns EXCEPT ![t] = [pc |-> "open",
                                      snapshot |-> estore.version,
                                      writes |-> {}, runs |-> 1, err |-> Nil]]
    /\ UNCHANGED estore
    /\ UNCHANGED <<oldVars, certVars, lstVars, crwVars, bothVars>>

\* the body writes: the write goes to the pending set
TxnPut(t) ==
    /\ etxns[t].pc = "open"
    /\ \E k \in EKeys \ etxns[t].writes :
         etxns' = [etxns EXCEPT ![t].writes = @ \cup {k}]
    /\ UNCHANGED estore
    /\ UNCHANGED <<oldVars, certVars, lstVars, crwVars, bothVars>>

\* the body returns an error: the pending set is dropped
BodyFails(t) ==
    /\ etxns[t].pc = "open"
    /\ etxns' = [etxns EXCEPT ![t].pc = "aborted", ![t].err = ErrBoom]
    /\ UNCHANGED estore
    /\ UNCHANGED <<oldVars, certVars, lstVars, crwVars, bothVars>>

\* the entity groups a transaction touched
Touched(tx) == {RootOf(k) : k \in tx.writes}
ConflictsNever(st, tx) == FALSE
\* one of the entity groups touched was modified by a version committed
\* after the snapshot was taken
Conflicts(st, tx) == \E r \in Touched(tx) : st.modified[r] > tx.snapshot

\* the body has returned nil: the commit either fails with the conflict
\* error, and is not tried again, or applies the pending set as one version
CommitTxn(t) ==
    /\ etxns[t].pc = "open"
    /\ etxns[t].writes # {} => estore.version < MaxVersions
    /\ IF Conflicts(estore, etxns[t])
         THEN /\ etxns' = [etxns EXCEPT ![t].pc = "conflict",
                                        ![t].err = ErrConcurrentTransaction]
              /\ UNCHANGED estore
         ELSE /\ etxns' = [etxns EXCEPT ![t].pc = "committed"]
              /\ estore' = IF etxns[t].writes = {} THEN estore
                           ELSE Apply(estore, etxns[t].writes,
                                      [k \in EKeys |-> TxnVal(t, k)])
    /\ UNCHANGED <<oldVars, certVars, lstVars, crwVars, bothVars>>

NextEngine ==
    \/ PutDirect
    \/ \E t \in Txns : Begin(t)
    \/ \E t \in Txns : TxnPut(t)
    \/ \E t \in Txns : BodyFails(t)
    \/ \E t \in Txns : CommitTxn(t)

SpecEngine == InitEngine /\ [][NextEngine]_vars

\* two transactions opened against the same snapshot that have both
\* written to one entity group
SameSnapshotSameGroup(t, u) ==
    /\ t # u
    /\ etxns[t].pc # "idle" /\ etxns[u].pc # "idle"
    /\ etxns[t].snapshot = etxns[u].snapshot
    /\ Touched(etxns[t]) \cap Touched(etxns[u]) # {}
\* a write of transaction t is in the store
Visible(t) == \E k \in EKeys : estore.ents[k] = TxnVal(t, k)

====
